---- MODULE Spec2Model ----
(***************************************************************************)
(* Quality-cached layered HDL generation with repair (MoA_HLS.py), its     *)
(* artifact cache (cache_manager.py) and its quality evaluator             *)
(* (quality_evaluator.py).                                                 *)
(*                                                                         *)
(* Scores are Python floats in [0, 1]; every score the program computes is *)
(* a sum of multiples of 0.01, and the model holds them in hundredths      *)
(* (1.0 is 100, 0.85 is 85, 0.45 is 45).                                   *)
(***************************************************************************)
EXTENDS Integers, Sequences, FiniteSets, TLC

(***************************************************************************)
(* Bounds of the model.                                                    *)
(***************************************************************************)
\* Largest count of one kind of finding (blocks, signals, literals) in a code text.
MaxCount == 1
\* The deepest trial has MaxLayers + 1 layers, with indices 0..MaxLayers.
MaxLayers == 2
\* n_select runs over 0..MaxSelect.
MaxSelect == 2
\* max_self_refinement_iterations runs over 0..MaxIterations.
MaxIterations == 2
\* Most candidates a cache holds when records are issued in any order.
MaxEntries == 3
\* Longest candidate list of one record call issued in any order.
MaxBatch == 2
\* Most trials a batch runs for a design (Config.N_SAMPLES).
MaxTrials == 2

Max(a, b) == IF a >= b THEN a ELSE b
Min(a, b) == IF a <= b THEN a ELSE b

\* Python's None: as a text, as a layer ceiling, as a score.
NoValue == "none"
NoLayer == 0 - 1
NoScore == 0 - 1
\* hdl_output["intermediate"] = None
NoIntermediate == [language |-> NoValue, code |-> NoValue]

(***************************************************************************)
(* The quality evaluator (quality_evaluator.py).                           *)
(*                                                                         *)
(* A code text is held by what the evaluator reads from it: whether it is  *)
(* blank, the facts the fallback rules test, and the counts of findings of *)
(* the three text analyses.                                                *)
(***************************************************************************)

\* The verifier's answers: iverilog on the code alone, and iverilog + vvp
\* against the testbench. A timeout (subprocess.TimeoutExpired) and a fault
\* (any other exception, such as a missing iverilog) raise inside the try
\* block.
SyntaxAnswers == {"ok", "error", "timeout", "fault"}
FunctionAnswers == {"pass", "no_testbench", "compile_fail", "sim_fail", "timeout", "fault"}

\* What _fallback_evaluation reads from the text.
FallbackFeatures ==
    [module_pair : BOOLEAN, io_decl : BOOLEAN, logic_count : 0..6,
     name_ok : BOOLEAN, lines_ok : BOOLEAN, balanced : BOOLEAN]

\* No text read by _fallback_evaluation yet.
NoFeatures ==
    [module_pair |-> FALSE, io_decl |-> FALSE, logic_count |-> NoScore,
     name_ok |-> FALSE, lines_ok |-> FALSE, balanced |-> FALSE]

\* What _evaluate_logic_errors counts: always blocks driving more than 3
\* signals, blocks driving exactly 3, signals driven from several blocks,
\* clocked blocks with no reset branch, clocked blocks with more than two
\* hold assignments.
LogicFeatures ==
    [big_blocks : 0..MaxCount, mid_blocks : 0..MaxCount, multi_driven : 0..MaxCount,
     no_reset : 0..MaxCount, hold_blocks : 0..MaxCount]

\* What _evaluate_synthesis_issues counts.
SynthesisFeatures ==
    [mixed_edge : 0..MaxCount, assign_and_always : 0..MaxCount,
     width_mismatch : 0..MaxCount]

\* What _evaluate_style_issues tests.
StyleFeatures ==
    [low_indent : BOOLEAN, missing_width : BOOLEAN, reset_naming : BOOLEAN,
     mixed_inputs : BOOLEAN, cramped_parens : BOOLEAN]

test_syntax(ans) == IF ans = "ok" THEN 100 ELSE 0

\* Faulty variant of test_function: only a verdict of the tools counts as a
\* failure, a run that raised is taken as passed.
test_function_raise_passes(ans) ==
    IF ans \in {"pass", "timeout", "fault"} THEN 100 ELSE 0

test_function(ans) == IF ans = "pass" THEN 100 ELSE 0

\* Faulty variant of fallback_evaluation: the sum without the cap at 0.6.
fallback_evaluation_uncapped(f) ==
    (IF f.module_pair THEN 20 ELSE 0)
    + (IF f.io_decl THEN 15 ELSE 0)
    + Min(f.logic_count * 5, 15)
    + (IF f.name_ok THEN 10 ELSE 0)
    + (IF f.lines_ok THEN 5 ELSE 0)
    + (IF f.balanced THEN 5 ELSE 0)

\* Faulty variant of fallback_evaluation: every keyword found earns 0.05,
\* with no ceiling of 0.15 on the keyword reward.
fallback_evaluation_every_keyword(f) ==
    Min((IF f.module_pair THEN 20 ELSE 0)
        + (IF f.io_decl THEN 15 ELSE 0)
        + f.logic_count * 5
        + (IF f.name_ok THEN 10 ELSE 0)
        + (IF f.lines_ok THEN 5 ELSE 0)
        + (IF f.balanced THEN 5 ELSE 0),
        60)

fallback_evaluation(f) ==
    Min((IF f.module_pair THEN 20 ELSE 0)
        + (IF f.io_decl THEN 15 ELSE 0)
        + Min(f.logic_count * 5, 15)
        + (IF f.name_ok THEN 10 ELSE 0)
        + (IF f.lines_ok THEN 5 ELSE 0)
        + (IF f.balanced THEN 5 ELSE 0),
        60)

\* Faulty variant of evaluate_logic_errors: the sum without the cap at 0.4.
evaluate_logic_errors_uncapped(l) ==
    l.big_blocks * 20 + l.mid_blocks * 10 + l.multi_driven * 15
    + l.no_reset * 10 + l.hold_blocks * 10

evaluate_logic_errors(l) ==
    Min(l.big_blocks * 20 + l.mid_blocks * 10 + l.multi_driven * 15
        + l.no_reset * 10 + l.hold_blocks * 10,
        40)

evaluate_synthesis_issues(s) ==
    Min(s.mixed_edge * 5 + s.assign_and_always * 10 + s.width_mismatch * 5, 20)

evaluate_style_issues(t) ==
    Min((IF t.low_indent THEN 2 ELSE 0)
        + (IF t.missing_width THEN 1 ELSE 0)
        + (IF t.reset_naming THEN 1 ELSE 0)
        + (IF t.mixed_inputs THEN 1 ELSE 0)
        + (IF t.cramped_parens THEN 1 ELSE 0),
        6)

\* Faulty variant of severity_final: no floor at 0.45.
severity_no_floor(total_penalty) == 85 - total_penalty

\* final_score = base_score - total_penalty; return max(final_score, 0.45)
severity_final(total_penalty) == Max(85 - total_penalty, 45)

\* A code text: [blank, fallback, logic, synthesis, style].
severity_weighted_evaluation(code) ==
    severity_final(evaluate_logic_errors(code.logic)
                   + evaluate_synthesis_issues(code.synthesis)
                   + evaluate_style_issues(code.style))

evaluate_quality(code, syn, fn) ==
    IF code.blank THEN 0
    ELSE IF test_syntax(syn) = 0 THEN fallback_evaluation(code.fallback)
    ELSE IF test_function(fn) > 0 THEN 100
    ELSE severity_weighted_evaluation(code)

(***************************************************************************)
(* Code texts of the candidates. A text that passes validate_hdl_code has  *)
(* one module/endmodule pair and a named module.                           *)
(***************************************************************************)
TextA ==
    [blank |-> FALSE,
     fallback |-> [module_pair |-> TRUE, io_decl |-> TRUE, logic_count |-> 3,
                   name_ok |-> TRUE, lines_ok |-> TRUE, balanced |-> TRUE],
     logic |-> [big_blocks |-> 0, mid_blocks |-> 0, multi_driven |-> 0,
                no_reset |-> 0, hold_blocks |-> 0],
     synthesis |-> [mixed_edge |-> 0, assign_and_always |-> 0, width_mismatch |-> 0],
     style |-> [low_indent |-> FALSE, missing_width |-> FALSE, reset_naming |-> FALSE,
                mixed_inputs |-> FALSE, cramped_parens |-> FALSE]]

TextB ==
    [blank |-> FALSE,
     fallback |-> [module_pair |-> TRUE, io_decl |-> FALSE, logic_count |-> 1,
                   name_ok |-> TRUE, lines_ok |-> FALSE, balanced |-> FALSE],
     logic |-> [big_blocks |-> 0, mid_blocks |-> 0, multi_driven |-> 1,
                no_reset |-> 1, hold_blocks |-> 0],
     synthesis |-> [mixed_edge |-> 0, assign_and_always |-> 0, width_mismatch |-> 0],
     style |-> [low_indent |-> FALSE, missing_width |-> FALSE, reset_naming |-> FALSE,
                mixed_inputs |-> FALSE, cramped_parens |-> FALSE]]

\* Candidates hold their code by name.
Codes == {"A", "B"}

Text(code) == IF code = "A" THEN TextA ELSE TextB

Languages == {"cpp", "python"}

LayerIndices == 0..MaxLayers

(***************************************************************************)
(* The artifact cache (HDLCacheManager, DualLayerCacheManager).            *)
(*                                                                         *)
(* cache_data["layer_outputs"] is a dict keyed by str(layer_idx): it       *)
(* iterates in the order in which the keys were first inserted, which      *)
(* layer_keys holds. cached_at is datetime.now(), a clock that ticks with  *)
(* every entry.                                                            *)
(***************************************************************************)
EmptyCache ==
    [trial_num |-> 0,
     total_layers |-> 0,
     layer_keys |-> <<>>,
     layer_outputs |-> [l \in LayerIndices |-> <<>>],
     intermediate_codes |-> [g \in Languages |-> <<>>],
     total_hdl_codes |-> 0]

RECURSIVE SumLengths(_, _)
SumLengths(outputs, keys) ==
    IF keys = <<>> THEN 0
    ELSE Len(outputs[Head(keys)]) + SumLengths(outputs, Tail(keys))

KeyPresent(cd, layer_idx) == \E i \in 1..Len(cd.layer_keys) : cd.layer_keys[i] = layer_idx

\* Faulty variant of IntermediateQuality: the final score as the key.
IntermediateQualityFromScore(hdl_output) == hdl_output.quality_score

\* hdl_output.get("original_quality", hdl_output["quality_score"])
IntermediateQuality(hdl_output) ==
    IF hdl_output.original_quality # NoScore
    THEN hdl_output.original_quality
    ELSE hdl_output.quality_score

\* Faulty variant of ReferenceIdx: the position counted from 1.
ReferenceIdxFromOne(entries) == Len(entries) + 1

\* "hdl_reference_idx": len(self.cache_data["layer_outputs"][layer_key])
ReferenceIdx(entries) == Len(entries)

\* The loop body of add_layer_outputs_with_intermediate, for each output.
RECURSIVE AppendOutputs(_, _, _, _)
AppendOutputs(cd, layer_idx, hdl_outputs, clk) ==
    IF hdl_outputs = <<>> THEN cd
    ELSE
        LET o == Head(hdl_outputs)
            has == o.intermediate.language # NoValue
            hdl_entry ==
                [code |-> o.code,
                 quality_score |-> o.quality_score,
                 path |-> o.path,
                 layer_idx |-> layer_idx,
                 cached_at |-> clk,
                 has_intermediate |-> has,
                 intermediate_language |->
                     IF has THEN o.intermediate.language ELSE NoValue]
            intermediate_entry ==
                [code |-> o.intermediate.code,
                 language |-> o.intermediate.language,
                 hdl_quality |-> IntermediateQuality(o),
                 layer_idx |-> layer_idx,
                 hdl_reference_idx |-> ReferenceIdx(cd.layer_outputs[layer_idx])]
            withIntermediate ==
                IF has
                THEN [cd EXCEPT !.intermediate_codes[o.intermediate.language] =
                                    Append(@, intermediate_entry)]
                ELSE cd
            next == [withIntermediate EXCEPT !.layer_outputs[layer_idx] =
                                                 Append(@, hdl_entry)]
        IN AppendOutputs(next, layer_idx, Tail(hdl_outputs), clk + 1)

\* The loop body of add_layer_outputs, for each output.
RECURSIVE AppendEntries(_, _, _, _)
AppendEntries(cd, layer_idx, hdl_outputs, clk) ==
    IF hdl_outputs = <<>> THEN cd
    ELSE
        LET o == Head(hdl_outputs)
            hdl_entry ==
                [code |-> o.code,
                 model |-> o.model,
                 quality_score |-> o.quality_score,
                 layer_idx |-> layer_idx,
                 cached_at |-> clk,
                 generation_info |-> o.generation_info]
            next == [cd EXCEPT !.layer_outputs[layer_idx] = Append(@, hdl_entry)]
        IN AppendEntries(next, layer_idx, Tail(hdl_outputs), clk + 1)

\* Faulty variant of TotalLayers: the count follows the last layer recorded.
TotalLayersOfLastRecord(total_layers, layer_idx) == layer_idx + 1

\* max(self.cache_data["total_layers"], layer_idx + 1)
TotalLayers(total_layers, layer_idx) == Max(total_layers, layer_idx + 1)

\* HDLCacheManager.add_layer_outputs, up to its trailing _save_cache.
add_layer_outputs(cd, layer_idx, hdl_outputs, clk) ==
    LET keyed == IF KeyPresent(cd, layer_idx) THEN cd
                 ELSE [cd EXCEPT !.layer_keys = Append(@, layer_idx)]
        filled == AppendEntries(keyed, layer_idx, hdl_outputs, clk)
    IN [filled EXCEPT
            !.total_layers = TotalLayers(@, layer_idx),
            !.total_hdl_codes = SumLengths(filled.layer_outputs, filled.layer_keys)]

\* Faulty variant of add_layer_outputs_with_intermediate: the lists of the
\* other layers and the auxiliary lists are emptied before the outputs are
\* appended.
add_layer_outputs_dropping_others(cd, layer_idx, hdl_outputs, clk) ==
    LET kept == [cd EXCEPT
                     !.layer_keys = <<layer_idx>>,
                     !.layer_outputs = [l \in LayerIndices |->
                                            IF l = layer_idx THEN @[l] ELSE <<>>],
                     !.intermediate_codes = [g \in Languages |-> <<>>]]
        filled == AppendOutputs(kept, layer_idx, hdl_outputs, clk)
    IN [filled EXCEPT
            !.total_layers = TotalLayers(@, layer_idx),
            !.total_hdl_codes = SumLengths(filled.layer_outputs, filled.layer_keys)]

add_layer_outputs_with_intermediate(cd, layer_idx, hdl_outputs, clk) ==
    LET keyed == IF KeyPresent(cd, layer_idx) THEN cd
                 ELSE [cd EXCEPT !.layer_keys = Append(@, layer_idx)]
        filled == AppendOutputs(keyed, layer_idx, hdl_outputs, clk)
    IN [filled EXCEPT
            !.total_layers = TotalLayers(@, layer_idx),
            !.total_hdl_codes = SumLengths(filled.layer_outputs, filled.layer_keys)]

\* _save_cache: the write either succeeds, leaves the file as it was, or
\* leaves it truncated; the exception is swallowed.
SaveOutcomes == {"written", "untouched", "truncated"}

save_cache(file, outcome) ==
    CASE outcome = "written" -> "current"
      [] outcome = "truncated" -> "corrupt"
      [] OTHER -> IF file = "absent" THEN "absent"
                  ELSE IF file = "corrupt" THEN "corrupt" ELSE "stale"

\* Faulty variant of InsertByScore: an unstable sort, which puts an element
\* before the equal keys already placed.
RECURSIVE InsertByScoreBeforeEqual(_, _)
InsertByScoreBeforeEqual(sorted, x) ==
    IF sorted = <<>> THEN <<x>>
    ELSE IF Head(sorted).quality_score > x.quality_score
         THEN <<Head(sorted)>> \o InsertByScoreBeforeEqual(Tail(sorted), x)
         ELSE <<x>> \o sorted

\* sorted(all_codes, key=quality_score, reverse=True): a stable sort, equal
\* keys keep their order in all_codes.
RECURSIVE InsertByScore(_, _)
InsertByScore(sorted, x) ==
    IF sorted = <<>> THEN <<x>>
    ELSE IF Head(sorted).quality_score >= x.quality_score
         THEN <<Head(sorted)>> \o InsertByScore(Tail(sorted), x)
         ELSE <<x>> \o sorted

RECURSIVE SortedByScore(_)
SortedByScore(codes) ==
    IF codes = <<>> THEN <<>>
    ELSE InsertByScore(SortedByScore(SubSeq(codes, 1, Len(codes) - 1)),
                       codes[Len(codes)])

\* Faulty variant of AllCodes: the ceiling layer itself is left out.
RECURSIVE AllCodesExclusiveCeiling(_, _, _)
AllCodesExclusiveCeiling(cd, keys, up_to_layer) ==
    IF keys = <<>> THEN <<>>
    ELSE (IF up_to_layer # NoLayer /\ Head(keys) >= up_to_layer
          THEN <<>>
          ELSE cd.layer_outputs[Head(keys)])
         \o AllCodesExclusiveCeiling(cd, Tail(keys), up_to_layer)

\* The loop of get_top_quality_codes over layer_outputs.items().
RECURSIVE AllCodes(_, _, _)
AllCodes(cd, keys, up_to_layer) ==
    IF keys = <<>> THEN <<>>
    ELSE (IF up_to_layer # NoLayer /\ Head(keys) > up_to_layer
          THEN <<>>
          ELSE cd.layer_outputs[Head(keys)])
         \o AllCodes(cd, Tail(keys), up_to_layer)

get_top_quality_codes(cd, n, up_to_layer) ==
    LET sorted_codes == SortedByScore(AllCodes(cd, cd.layer_keys, up_to_layer))
    IN SubSeq(sorted_codes, 1, Min(n, Len(sorted_codes)))

\* get_best_intermediate_code returning None.
NoBest == [code |-> NoValue, language |-> NoValue, hdl_quality |-> NoScore]

\* The filter loop of get_best_intermediate_code.
RECURSIVE IntermediateCandidates(_, _)
IntermediateCandidates(entries, up_to_layer) ==
    IF entries = <<>> THEN <<>>
    ELSE (IF up_to_layer # NoLayer /\ Head(entries).layer_idx > up_to_layer
          THEN <<>>
          ELSE <<Head(entries)>>)
         \o IntermediateCandidates(Tail(entries), up_to_layer)

\* max(candidates, key=hdl_quality): the first entry of maximal key.
RECURSIVE FirstMax(_)
FirstMax(candidates) ==
    IF Len(candidates) = 1 THEN candidates[1]
    ELSE LET rest == FirstMax(Tail(candidates))
         IN IF Head(candidates).hdl_quality >= rest.hdl_quality
            THEN Head(candidates) ELSE rest

\* Faulty variant of get_best_intermediate_code: the ceiling is ignored.
get_best_intermediate_code_any_layer(cd, language, up_to_layer) ==
    LET candidates == cd.intermediate_codes[language]
    IN IF candidates = <<>> THEN NoBest
       ELSE LET best == FirstMax(candidates)
            IN [code |-> best.code, language |-> best.language,
                hdl_quality |-> best.hdl_quality]

get_best_intermediate_code(cd, language, up_to_layer) ==
    LET candidates == IntermediateCandidates(cd.intermediate_codes[language], up_to_layer)
    IN IF candidates = <<>> THEN NoBest
       ELSE LET best == FirstMax(candidates)
            IN [code |-> best.code, language |-> best.language,
                hdl_quality |-> best.hdl_quality]

has_cached_data(cd) == cd.total_hdl_codes > 0


(***************************************************************************)
(* The generator (MoAHLSGenerator).                                        *)
(***************************************************************************)

PathTypes == {"direct", "cpp", "python"}

\* The path lists the model runs.
PathConfigs == {<<"direct">>, <<"cpp">>, <<"direct", "cpp">>, <<"python", "direct">>}

ConstructorArgs ==
    [num_layers : 0..(MaxLayers + 1),
     n_select : 0..MaxSelect,
     path_config : PathConfigs,
     enable_quality_caching : BOOLEAN,
     enable_early_stopping : BOOLEAN,
     enable_self_refinement : BOOLEAN,
     max_self_refinement_iterations : 0..MaxIterations]

\* Faulty variant of Construct: the switches are kept as given.
ConstructAsGiven(args) == args

\* __init__: self-refinement is switched off when quality caching is off.
Construct(args) ==
    [args EXCEPT !.enable_self_refinement =
                     args.enable_self_refinement /\ args.enable_quality_caching]

\* What the verifier answers to one evaluation: the syntax check, and the
\* run against the testbench when the syntax check passed.
\* msg is the diagnostic text of a failure, held by what
\* generate_refinement_prompt reads from it: whether it contains
\* "Unknown module type".
UnknownModule == "Unknown module type"
OtherMessage == "other"

VerifierBehaviours ==
    {[syn |-> "ok", fn |-> "pass", msg |-> NoValue],
     [syn |-> "ok", fn |-> "sim_fail", msg |-> OtherMessage],
     [syn |-> "ok", fn |-> "compile_fail", msg |-> OtherMessage],
     [syn |-> "ok", fn |-> "compile_fail", msg |-> UnknownModule],
     [syn |-> "error", fn |-> "sim_fail", msg |-> OtherMessage]}

\* evaluate_quality_with_details: the score of the cascade, with the
\* verdict and, on a failure, its error class.
evaluate_quality_with_details(code, v) ==
    [quality |-> evaluate_quality(Text(code), v.syn, v.fn),
     passed |-> (test_syntax(v.syn) > 0 /\ test_function(v.fn) > 0),
     error_type |->
         IF test_syntax(v.syn) = 0 THEN "syntax_error"
         ELSE IF test_function(v.fn) > 0 THEN NoValue
         ELSE IF v.fn = "compile_fail" THEN "compilation_error"
         ELSE "simulation_fail",
     error_message |->
         IF test_syntax(v.syn) > 0 /\ test_function(v.fn) > 0 THEN NoValue
         ELSE v.msg]

\* The specific_guidance of generate_refinement_prompt: the block chosen by
\* the error type and the message, and whether the notes on translated
\* code are added to it.
specific_guidance(error_type, error_message, intermediate_code, intermediate_language) ==
    [text |->
         IF error_type = "syntax_error" THEN "SYNTAX ERROR DETECTED"
         ELSE IF error_type = "compilation_error"
              THEN IF error_message = UnknownModule
                   THEN "MISSING/UNKNOWN MODULE ERROR"
                   ELSE "COMPILATION ERROR"
         ELSE IF error_type = "simulation_fail" THEN "SIMULATION FAILURE"
         ELSE "TESTING FAILED",
     translation_issues |->
         intermediate_code # NoValue /\ intermediate_language # NoValue]

\* Faulty variant of NextRound: the error details of the evaluation before
\* are kept.
NextRoundStaleDetails(locals, refined_code, refined_error_details) ==
    [locals EXCEPT !.current_code = refined_code]

\* Faulty variant of NextRound: the next request is built from the
\* best-seen code.
NextRoundFromBest(locals, refined_code, refined_error_details) ==
    [locals EXCEPT !.current_code = locals.best_code,
                   !.error_type = refined_error_details.error_type,
                   !.error_message = refined_error_details.error_message]

\* current_code = refined_code; error_details = refined_error_details
NextRound(locals, refined_code, refined_error_details) ==
    [locals EXCEPT !.current_code = refined_code,
                   !.error_type = refined_error_details.error_type,
                   !.error_message = refined_error_details.error_message]

\* What a generation request comes back as, after extract_code and
\* validate_hdl_code: no response, a response with no valid module, or a
\* valid module.
NoResponse == "no_response"
InvalidText == "invalid"
HdlResponses == {NoResponse, InvalidText} \cup Codes

\* The locals of refine_hdl_code before the first evaluation.
NoLocals ==
    [original_code |-> NoValue, intermediate_code |-> NoValue,
     intermediate_language |-> NoValue, original_quality |-> NoScore,
     best_code |-> NoValue, best_quality |-> NoScore, current_code |-> NoValue,
     error_type |-> NoValue, error_message |-> NoValue, iteration |-> 0]

NoReturn ==
    [code |-> NoValue, quality |-> NoScore, iterations |-> NoScore,
     original_quality |-> NoScore]

NoHistory ==
    [first_eval |-> NoScore, requests |-> 0, evaluations |-> 0, exit |-> NoValue,
     last_code |-> NoValue, last_passed |-> FALSE, last_quality |-> NoScore,
     last_error_type |-> NoValue, last_error_message |-> NoValue,
     request |-> [code |-> NoValue, error_type |-> NoValue, iteration |-> 0],
     asked |-> <<>>,
     seen |-> <<>>]

\* Faulty variant of Improved: a candidate that only equals the best score
\* replaces the best-seen one.
ImprovedOrEqual(refined_quality, best_quality) == refined_quality >= best_quality

\* if refined_quality > best_quality
Improved(refined_quality, best_quality) == refined_quality > best_quality

\* Faulty variant of LoopRange: one round more.
LoopRangeOneMore(max_iterations) == 1..(max_iterations + 1)

\* range(1, self.max_self_refinement_iterations + 1)
LoopRange(max_iterations) == 1..max_iterations

\* Faulty variant of ReturnAtEntry: one iteration is counted.
ReturnAtEntryRepaired(code, quality, original_quality, iterations) ==
    [code |-> code, quality |-> quality, iterations |-> iterations + 1,
     original_quality |-> original_quality]

\* The tuple returned at entry: repair disabled, or the verdict "passed".
ReturnAtEntry(code, quality, original_quality, iterations) ==
    [code |-> code, quality |-> quality, iterations |-> iterations,
     original_quality |-> original_quality]

\* Faulty variant of ReturnAccepted: the code given at entry is returned.
ReturnAcceptedOriginalCode(refined_code, refined_quality, iteration, locals) ==
    [code |-> locals.original_code, quality |-> refined_quality, iterations |-> iteration,
     original_quality |-> locals.original_quality]

\* The tuple returned when a re-evaluation yields "passed".
ReturnAccepted(refined_code, refined_quality, iteration, locals) ==
    [code |-> refined_code, quality |-> refined_quality, iterations |-> iteration,
     original_quality |-> locals.original_quality]

\* Faulty variant of ReturnAfterLoop: the best score is returned as the
\* original quality.
ReturnAfterLoopBestAsOriginal(locals, iteration) ==
    [code |-> locals.best_code, quality |-> locals.best_quality,
     iterations |-> iteration, original_quality |-> locals.best_quality]

\* Faulty variant of ReturnAfterLoop: the code repaired last is returned.
ReturnAfterLoopCurrentCode(locals, iteration) ==
    [code |-> locals.current_code, quality |-> locals.best_quality,
     iterations |-> iteration, original_quality |-> locals.original_quality]

\* The tuple returned after the loop.
ReturnAfterLoop(locals, iteration) ==
    [code |-> locals.best_code, quality |-> locals.best_quality,
     iterations |-> iteration, original_quality |-> locals.original_quality]

VARIABLES
    epc,        \* evaluator: "idle", or the analysis about to run
    estage,     \* evaluator: stage that decided (or will decide) this evaluation
    etotal,     \* evaluator: total_penalty of _severity_weighted_evaluation
    escore,     \* evaluator: the score returned by the last evaluation
    eprev,      \* evaluator: stage and score of the evaluation before it
    ecall,      \* evaluator: the call in progress, its code, answers and steps
    ecalls,     \* history: the latest calls that returned, with their scores
    efeat,      \* history: the facts the last run of _fallback_evaluation alone read
    cache_data, \* cache: HDLCacheManager.cache_data
    cache_file, \* cache: the persisted document, "absent", "current", "stale" or "corrupt"
    clock,      \* cache: datetime.now(), in ticks
    input_log,  \* history: per layer, the hdl_output dicts handed to the cache
    cfg,        \* generator: the fields set by __init__
    rpc,        \* repair loop: "idle", "entry", "loop", "returned" or "raised"
    rf,         \* repair loop: the arguments and locals of refine_hdl_code
    rf_ret,     \* repair loop: the tuple returned
    rf_hist,    \* history of this invocation: first score, requests, evaluations, exit
    pc,         \* trial: position in generate_trial
    layer_idx,  \* trial: the layer being processed
    path_idx,   \* trial: position in path_config within the layer (from 1)
    previous_codes,         \* trial: forward-feed input of the layer (<<>> for None)
    reference,              \* trial: reference_cpp and reference_python of the layer
    current_layer_outputs,  \* trial: the results of the layer's paths
    final_input,            \* trial: the candidates given to final aggregation
    attempt,    \* trial: the aggregation attempt, 0 or 1
    result,     \* trial: the code generate_trial returned
    outcome,    \* trial: how the trial ended
    trial_hist, \* history of the trial: layers started, aggregation requests
    trial_num,  \* batch: the number of the trial, from 1
    n_samples   \* batch: Config.N_SAMPLES, the number of trials per design

evalVars == <<epc, estage, etotal, escore, eprev, ecall, ecalls, efeat>>

cacheVars == <<cache_data, cache_file, clock, input_log>>

refineVars == <<rpc, rf, rf_ret, rf_hist>>

trialVars == <<pc, layer_idx, path_idx, previous_codes, reference,
               current_layer_outputs, final_input, attempt, result, outcome,
               trial_hist, trial_num, n_samples>>

vars == <<evalVars, cacheVars, cfg, refineVars, trialVars>>

NoReference == [cpp |-> NoValue, python |-> NoValue]

\* History of a trial: the layers started, the candidates each finished
\* layer yielded, whether final aggregation was entered, the aggregation
\* requests and whether the response to each was a valid module, and
\* whether an earlier trial of the batch recorded a candidate; the
\* generation requests issued so far by the paths, by the repair loops that
\* returned and by the aggregation of generate_trial, and the requests of
\* the path run last.
NoPath ==
    [layer |-> NoLayer, path |-> NoValue, auxiliary |-> NoValue,
     aux_requests |-> 0, hdl_requests |-> 0]

NoTrialHistory ==
    [layers_started |-> 0,
     requests |-> 0,
     last_path |-> NoPath,
     layer_counts |-> <<>>,
     agg_entered |-> FALSE,
     agg_requests |-> 0,
     agg_valid |-> <<>>,
     agg_codes |-> <<>>,
     earlier_recorded |-> FALSE]

TrialIdle ==
    /\ pc = "idle"
    /\ layer_idx = 0
    /\ path_idx = 0
    /\ previous_codes = <<>>
    /\ reference = NoReference
    /\ current_layer_outputs = <<>>
    /\ final_input = <<>>
    /\ attempt = 0
    /\ result = NoValue
    /\ outcome = NoValue
    /\ trial_hist = NoTrialHistory
    /\ trial_num = 0
    /\ n_samples = 0

GeneratorIdle == cfg = Construct(CHOOSE a \in ConstructorArgs : TRUE)

RefineIdle ==
    /\ rpc = "idle"
    /\ rf = NoLocals
    /\ rf_ret = NoReturn
    /\ rf_hist = NoHistory

\* No call of evaluate_quality in progress.
NoCall == [code |-> NoValue, syn |-> NoValue, fn |-> NoValue, steps |-> <<>>]

EvalStart ==
    /\ epc = "idle"
    /\ estage = NoValue
    /\ etotal = 0
    /\ escore = 0
    /\ eprev = [stage |-> NoValue, score |-> 0]
    /\ ecall = NoCall
    /\ ecalls = <<>>
    /\ efeat = NoFeatures

\* Faulty variant of NewCache: the structure of the cache before it is kept.
ReusedCache(num) == [cache_data EXCEPT !.trial_num = num]

\* The cache_data a cache manager constructed for trial num starts with.
NewCache(num) == [EmptyCache EXCEPT !.trial_num = num]

\* HDLCacheManager.__init__ and DualLayerCacheManager.__init__: a fresh
\* structure, the old file removed, the fresh one saved.
CacheStart ==
    /\ cache_data = NewCache(1)
    /\ cache_file \in {save_cache("absent", o) : o \in SaveOutcomes}
    /\ clock = 0
    /\ input_log = [l \in LayerIndices |-> <<>>]

EvalInit == EvalStart /\ CacheStart /\ GeneratorIdle /\ RefineIdle /\ TrialIdle

\* evaluate_quality up to its return, or up to the call of
\* _severity_weighted_evaluation.
EvaluateQuality ==
    /\ epc = "idle"
    /\ eprev' = [stage |-> estage, score |-> escore]
    /\ etotal' = 0
    /\ UNCHANGED <<ecall, ecalls, efeat, cacheVars, cfg,
                 refineVars, trialVars>>
    /\ \E blank \in BOOLEAN :
        IF blank THEN
            /\ estage' = "blank"
            /\ escore' = 0
            /\ epc' = "idle"
        ELSE
            \E syntax_score \in {test_syntax(ans) : ans \in SyntaxAnswers} :
                IF syntax_score = 0 THEN
                    \E fb \in FallbackFeatures :
                        /\ estage' = "syntax_fail"
                        /\ escore' = fallback_evaluation(fb)
                        /\ epc' = "idle"
                ELSE
                    \E function_score \in {test_function(ans) : ans \in FunctionAnswers} :
                        IF function_score > 0 THEN
                            /\ estage' = "pass"
                            /\ escore' = 100
                            /\ epc' = "idle"
                        ELSE
                            /\ estage' = "func_fail"
                            /\ escore' = escore
                            /\ epc' = "logic"

EvaluateLogicErrors ==
    /\ epc = "logic"
    /\ \E l \in LogicFeatures :
        etotal' = etotal + evaluate_logic_errors(l)
    /\ epc' = "synthesis"
    /\ UNCHANGED <<estage, escore, eprev, ecall, ecalls, efeat, cacheVars, cfg,
                 refineVars, trialVars>>

EvaluateSynthesisIssues ==
    /\ epc = "synthesis"
    /\ \E s \in SynthesisFeatures :
        etotal' = etotal + evaluate_synthesis_issues(s)
    /\ epc' = "style"
    /\ UNCHANGED <<estage, escore, eprev, ecall, ecalls, efeat, cacheVars, cfg,
                 refineVars, trialVars>>

EvaluateStyleIssues ==
    /\ epc = "style"
    /\ \E t \in StyleFeatures :
        /\ etotal' = etotal + evaluate_style_issues(t)
        /\ escore' = severity_final(etotal + evaluate_style_issues(t))
    /\ epc' = "idle"
    /\ UNCHANGED <<estage, eprev, ecall, ecalls, efeat, cacheVars, cfg,
                 refineVars, trialVars>>

EvalNext ==
    \/ EvaluateQuality
    \/ EvaluateLogicErrors
    \/ EvaluateSynthesisIssues
    \/ EvaluateStyleIssues

SpecEval == EvalInit /\ [][EvalNext]_vars

(***************************************************************************)
(* The evaluator call by call: evaluate_quality on a code held by name,    *)
(* one step per run of the verifier and per analysis of the text, the      *)
(* verifier answering each run in any way.                                 *)
(***************************************************************************)

\* A code for which "not code or not code.strip()" holds.
BlankCode == "blank"

EvalCodes == Codes \cup {BlankCode}

\* The history keeps the three latest calls.
LatestCalls(calls) ==
    IF Len(calls) > 3 THEN SubSeq(calls, Len(calls) - 2, Len(calls)) ELSE calls

\* Faulty variant of ReturnScore: the evaluator remembers the score of the
\* call before and never returns less.
ReturnScoreNotBelowLast(call, score) ==
    LET kept == IF ecalls = <<>> THEN score
                ELSE Max(score, ecalls[Len(ecalls)].score)
    IN /\ epc' = "idle"
       /\ escore' = kept
       /\ ecalls' = LatestCalls(Append(ecalls,
                         [code |-> call.code, syn |-> call.syn, fn |-> call.fn,
                          steps |-> call.steps, score |-> kept]))
       /\ ecall' = NoCall

\* A return of evaluate_quality: the score goes to the caller, nothing of
\* the call is kept in the evaluator.
ReturnScore(call, score) ==
    /\ epc' = "idle"
    /\ escore' = score
    /\ ecalls' = LatestCalls(Append(ecalls,
                      [code |-> call.code, syn |-> call.syn, fn |-> call.fn,
                       steps |-> call.steps, score |-> score]))
    /\ ecall' = NoCall

\* Faulty variant of AfterSyntax: the functional test runs whatever the
\* syntax check said.
AfterSyntaxAlwaysFunction(syntax_score) == "function"

\* if syntax_score == 0.0: return self._fallback_evaluation(code)
AfterSyntax(syntax_score) == IF syntax_score = 0 THEN "fallback" ELSE "function"

\* The entry of evaluate_quality: blank code returns 0.0 at once.
CallEvaluateQuality ==
    /\ epc = "idle"
    /\ ecall = NoCall
    /\ \E code \in EvalCodes :
        IF code = BlankCode THEN
            ReturnScore([NoCall EXCEPT !.code = code], 0)
        ELSE
            /\ epc' = "syntax"
            /\ ecall' = [NoCall EXCEPT !.code = code]
            /\ UNCHANGED <<escore, ecalls>>
    /\ UNCHANGED <<estage, etotal, eprev, efeat, cacheVars, cfg, refineVars, trialVars>>

\* Step 1, _test_syntax, and the return of the fallback score when it
\* fails.
RunTestSyntax ==
    /\ epc = "syntax"
    /\ \E ans \in SyntaxAnswers :
        LET call == [ecall EXCEPT !.syn = ans, !.steps = Append(@, "syntax")]
        IN IF AfterSyntax(test_syntax(ans)) = "fallback" THEN
               ReturnScore([call EXCEPT !.steps = Append(@, "fallback")],
                           fallback_evaluation(Text(ecall.code).fallback))
           ELSE
               /\ epc' = "function"
               /\ ecall' = call
               /\ UNCHANGED <<escore, ecalls>>
    /\ UNCHANGED <<estage, etotal, eprev, efeat, cacheVars, cfg, refineVars, trialVars>>

\* Step 2, _test_function, and the return of 1.0 when it passes.
RunTestFunction ==
    /\ epc = "function"
    /\ \E ans \in FunctionAnswers :
        LET call == [ecall EXCEPT !.fn = ans, !.steps = Append(@, "function")]
        IN IF test_function(ans) > 0 THEN
               ReturnScore(call, 100)
           ELSE
               /\ epc' = "severity"
               /\ ecall' = call
               /\ UNCHANGED <<escore, ecalls>>
    /\ UNCHANGED <<estage, etotal, eprev, efeat, cacheVars, cfg, refineVars, trialVars>>

\* _severity_weighted_evaluation and the return of its score.
RunSeverityWeighted ==
    /\ epc = "severity"
    /\ ReturnScore([ecall EXCEPT !.steps = Append(@, "severity")],
                   severity_weighted_evaluation(Text(ecall.code)))
    /\ UNCHANGED <<estage, etotal, eprev, efeat, cacheVars, cfg, refineVars, trialVars>>

CallsNext ==
    \/ CallEvaluateQuality
    \/ RunTestSyntax
    \/ RunTestFunction
    \/ RunSeverityWeighted

SpecCalls == EvalInit /\ [][CallsNext]_vars

(***************************************************************************)
(* _fallback_evaluation alone, applied to any text: the text is held by    *)
(* the facts the rules test.                                               *)
(***************************************************************************)

\* _fallback_evaluation(code), for a code the syntax check rejected.
FallbackEvaluation ==
    /\ epc = "idle"
    /\ \E f \in FallbackFeatures :
        /\ efeat' = f
        /\ estage' = "syntax_fail"
        /\ escore' = fallback_evaluation(f)
    /\ eprev' = [stage |-> estage, score |-> escore]
    /\ UNCHANGED <<epc, etotal, ecall, ecalls, cacheVars, cfg, refineVars, trialVars>>

FallbackNext == FallbackEvaluation

SpecFallback == EvalInit /\ [][FallbackNext]_vars

(***************************************************************************)
(* The cache under record calls issued in any order.                       *)
(***************************************************************************)

\* hdl_output dicts as generate_single_path builds them.
CandidateInputs ==
    {[code |-> "A", quality_score |-> 60, original_quality |-> 60,
      path |-> "direct", intermediate |-> NoIntermediate],
     [code |-> "A", quality_score |-> 100, original_quality |-> 60,
      path |-> "cpp_chain", intermediate |-> [language |-> "cpp", code |-> "x1"]],
     [code |-> "B", quality_score |-> 60, original_quality |-> 45,
      path |-> "cpp_chain", intermediate |-> [language |-> "cpp", code |-> "x2"]],
     [code |-> "A", quality_score |-> 85, original_quality |-> 85,
      path |-> "python_chain", intermediate |-> [language |-> "python", code |-> "y1"]]}

CandidateBatches ==
    UNION {[1..n -> CandidateInputs] : n \in 1..MaxBatch}

\* Faulty variant of RecordLayer: a write that fails takes the appended
\* candidates out of the in-memory structure again.
RecordLayerUndoneOnFailedSave(layer, hdl_outputs, saved) ==
    /\ cache_data' = IF saved = "written"
                     THEN add_layer_outputs_with_intermediate(
                              cache_data, layer, hdl_outputs, clock)
                     ELSE cache_data
    /\ clock' = clock + Len(hdl_outputs)
    /\ cache_file' = save_cache(cache_file, saved)
    /\ input_log' = [input_log EXCEPT ![layer] = @ \o hdl_outputs]

\* add_layer_outputs_with_intermediate(layer_idx, hdl_outputs), with its
\* trailing _save_cache.
RecordLayer(layer, hdl_outputs, saved) ==
    /\ cache_data' = add_layer_outputs_with_intermediate(
                         cache_data, layer, hdl_outputs, clock)
    /\ clock' = clock + Len(hdl_outputs)
    /\ cache_file' = save_cache(cache_file, saved)
    /\ input_log' = [input_log EXCEPT ![layer] = @ \o hdl_outputs]

\* The layers the record calls are issued for.
RecordedLayers == 0..(MaxLayers - 1)

CacheRecord ==
    /\ \E hdl_outputs \in CandidateBatches :
        /\ cache_data.total_hdl_codes + Len(hdl_outputs) <= MaxEntries
        /\ \E layer \in RecordedLayers, saved \in SaveOutcomes :
               RecordLayer(layer, hdl_outputs, saved)
    /\ UNCHANGED <<evalVars, cfg, refineVars, trialVars>>

\* hdl_output dicts as generate_moa_trial builds them.
ModelOutput(code, model, quality_score, prompt_type) ==
    [code |-> code,
     model |-> model,
     quality_score |-> quality_score,
     generation_info |-> [prompt_type |-> prompt_type]]

ModelInputs ==
    {ModelOutput("A", "m1", 60, "initial"),
     ModelOutput("B", "m2", 85, "aggregation")}

ModelBatches ==
    UNION {[1..n -> ModelInputs] : n \in 1..MaxBatch}

\* add_layer_outputs(layer_idx, hdl_outputs), with its trailing
\* _save_cache. DualLayerCacheManager inherits the method.
RecordModelLayer(layer, hdl_outputs, saved) ==
    /\ cache_data' = add_layer_outputs(cache_data, layer, hdl_outputs, clock)
    /\ clock' = clock + Len(hdl_outputs)
    /\ cache_file' = save_cache(cache_file, saved)
    /\ input_log' = [input_log EXCEPT ![layer] = @ \o hdl_outputs]

CacheRecordModels ==
    /\ \E hdl_outputs \in ModelBatches :
        /\ cache_data.total_hdl_codes + Len(hdl_outputs) <= MaxEntries
        /\ \E layer \in RecordedLayers, saved \in SaveOutcomes :
               RecordModelLayer(layer, hdl_outputs, saved)
    /\ UNCHANGED <<evalVars, cfg, refineVars, trialVars>>

CacheInit == EvalStart /\ CacheStart /\ GeneratorIdle /\ RefineIdle /\ TrialIdle

CacheNext == CacheRecord

SpecCache == CacheInit /\ [][CacheNext]_vars

\* The cache under the record calls of both methods.
StoreNext == CacheRecord \/ CacheRecordModels

SpecStore == CacheInit /\ [][StoreNext]_vars

\* The record calls of both methods on a cache of at most MaxBatch
\* candidates, each call with any outcome of its write.
SmallCache == cache_data'.total_hdl_codes <= MaxBatch

SaveNext == (CacheRecord /\ SmallCache) \/ (CacheRecordModels /\ SmallCache)

SpecSave == CacheInit /\ [][SaveNext]_vars

(***************************************************************************)
(* The repair loop (refine_hdl_code).                                      *)
(***************************************************************************)

\* The call: the arguments are bound, nothing is evaluated yet.
CallRefine(original_code, intermediate_code, intermediate_language) ==
    /\ rpc' = "entry"
    /\ rf' = [NoLocals EXCEPT !.original_code = original_code,
                              !.intermediate_code = intermediate_code,
                              !.intermediate_language = intermediate_language]
    /\ rf_ret' = NoReturn
    /\ rf_hist' = NoHistory

\* From the entry of refine_hdl_code to the top of the for loop: the
\* disabled branch, the first evaluation, the return on "passed". With
\* max_self_refinement_iterations = 0 the loop body never binds iteration
\* and the return after the loop raises UnboundLocalError; with quality
\* caching off there is no evaluator and the first call raises.
RefineEvaluateOriginal(verifier) ==
    /\ rpc = "entry"
    /\ IF ~cfg.enable_self_refinement \/ ~cfg.enable_quality_caching THEN
           IF ~cfg.enable_quality_caching THEN
               /\ rpc' = "raised"
               /\ rf_hist' = [rf_hist EXCEPT !.exit = "raised"]
               /\ UNCHANGED <<rf, rf_ret>>
           ELSE
               \E v \in verifier :
                   LET quality == evaluate_quality(Text(rf.original_code), v.syn, v.fn)
                   IN /\ rpc' = "returned"
                      /\ rf_ret' = [code |-> rf.original_code, quality |-> quality,
                                    iterations |-> 0, original_quality |-> quality]
                      /\ rf_hist' = [rf_hist EXCEPT
                                        !.first_eval = quality,
                                        !.evaluations = 1,
                                        !.exit = "disabled",
                                        !.last_code = rf.original_code,
                                        !.last_quality = quality,
                                        !.seen = <<[code |-> rf.original_code,
                                                    quality |-> quality]>>]
                      /\ UNCHANGED rf
       ELSE
           \E v \in verifier :
               LET d == evaluate_quality_with_details(rf.original_code, v)
                   hist == [rf_hist EXCEPT !.first_eval = d.quality,
                                           !.evaluations = 1,
                                           !.last_code = rf.original_code,
                                           !.last_passed = d.passed,
                                           !.last_quality = d.quality,
                                           !.last_error_type = d.error_type,
                                           !.last_error_message = d.error_message,
                                           !.seen = <<[code |-> rf.original_code,
                                                       quality |-> d.quality]>>]
               IN IF d.passed THEN
                      /\ rpc' = "returned"
                      /\ rf' = [rf EXCEPT !.original_quality = d.quality]
                      /\ rf_ret' = ReturnAtEntry(rf.original_code, d.quality, d.quality, 0)
                      /\ rf_hist' = [hist EXCEPT !.exit = "accepted"]
                  ELSE
                      /\ rf' = [rf EXCEPT !.original_quality = d.quality,
                                          !.best_code = rf.original_code,
                                          !.best_quality = d.quality,
                                          !.current_code = rf.original_code,
                                          !.error_type = d.error_type,
                                          !.error_message = d.error_message]
                      /\ rf_ret' = rf_ret
                      /\ IF LoopRange(cfg.max_self_refinement_iterations) # {} THEN
                             /\ rpc' = "loop"
                             /\ rf_hist' = hist
                         ELSE
                             /\ rpc' = "raised"
                             /\ rf_hist' = [hist EXCEPT !.exit = "raised"]

\* One pass of the for loop, with the return after the loop when the pass
\* is the last one or ends in a break.
RefineIteration(verifier) ==
    /\ rpc = "loop"
    /\ LET iteration == rf.iteration + 1
           request == [code |-> rf.current_code, error_type |-> rf.error_type,
                       iteration |-> iteration]
           guidance == specific_guidance(rf.error_type, rf.error_message,
                                         rf.intermediate_code, rf.intermediate_language)
           asked == [rf_hist EXCEPT
                         !.requests = @ + 1,
                         !.request = request,
                         !.asked = Append(@, [iteration |-> iteration,
                                              code |-> rf.current_code,
                                              error_type |-> rf.error_type,
                                              error_message |-> rf.error_message,
                                              guidance |-> guidance,
                                              verdict_of |-> rf_hist.last_code,
                                              verdict_type |-> rf_hist.last_error_type,
                                              verdict_message |-> rf_hist.last_error_message])]
       IN \E response \in HdlResponses :
           IF response \in {NoResponse, InvalidText} THEN
               /\ rpc' = "returned"
               /\ rf' = [rf EXCEPT !.iteration = iteration]
               /\ rf_ret' = ReturnAfterLoop(rf, iteration)
               /\ rf_hist' = [asked EXCEPT !.exit = response]
           ELSE
               \E v \in verifier :
                   LET d == evaluate_quality_with_details(response, v)
                       improved == Improved(d.quality, rf.best_quality)
                       locals == [rf EXCEPT
                                      !.iteration = iteration,
                                      !.best_code = IF improved THEN response ELSE @,
                                      !.best_quality = IF improved THEN d.quality ELSE @]
                       hist == [asked EXCEPT !.evaluations = @ + 1,
                                             !.last_code = response,
                                             !.last_passed = d.passed,
                                             !.last_quality = d.quality,
                                             !.last_error_type = d.error_type,
                                             !.last_error_message = d.error_message,
                                             !.seen = Append(@, [code |-> response,
                                                                 quality |-> d.quality])]
                   IN IF d.passed THEN
                          /\ rpc' = "returned"
                          /\ rf' = locals
                          /\ rf_ret' = ReturnAccepted(response, d.quality, iteration, locals)
                          /\ rf_hist' = [hist EXCEPT !.exit = "accepted"]
                      ELSE IF iteration + 1 \notin LoopRange(cfg.max_self_refinement_iterations) THEN
                          /\ rpc' = "returned"
                          /\ rf' = NextRound(locals, response, d)
                          /\ rf_ret' = ReturnAfterLoop(locals, iteration)
                          /\ rf_hist' = [hist EXCEPT !.exit = "exhausted"]
                      ELSE
                          /\ rpc' = "loop"
                          /\ rf' = NextRound(locals, response, d)
                          /\ rf_ret' = rf_ret
                          /\ rf_hist' = hist

(***************************************************************************)
(* One invocation of the repair loop on its own, for any generator and any *)
(* candidate.                                                              *)
(***************************************************************************)
RefineArguments ==
    {[code |-> c, intermediate |-> i] :
        c \in Codes,
        i \in {NoIntermediate, [language |-> "cpp", code |-> "x1"],
               [language |-> "python", code |-> "y1"]}}

\* The generators that differ in a field the repair loop reads.
RefineGenerators ==
    {Construct(a) : a \in {x \in ConstructorArgs :
                               /\ x.num_layers = 1
                               /\ x.n_select = 1
                               /\ x.path_config = <<"direct">>
                               /\ ~x.enable_early_stopping}}

RefineInit ==
    /\ EvalStart
    /\ CacheStart
    /\ cfg \in RefineGenerators
    /\ \E a \in RefineArguments :
        /\ rpc = "entry"
        /\ rf = [NoLocals EXCEPT !.original_code = a.code,
                                 !.intermediate_code = a.intermediate.code,
                                 !.intermediate_language = a.intermediate.language]
    /\ rf_ret = NoReturn
    /\ rf_hist = NoHistory
    /\ TrialIdle

RefineEntryStep ==
    /\ pc = "idle"
    /\ RefineEvaluateOriginal(VerifierBehaviours)
    /\ UNCHANGED <<evalVars, cacheVars, cfg, trialVars>>

RefineLoopStep ==
    /\ pc = "idle"
    /\ RefineIteration(VerifierBehaviours)
    /\ UNCHANGED <<evalVars, cacheVars, cfg, trialVars>>

RefineNext == RefineEntryStep \/ RefineLoopStep

SpecRefine == RefineInit /\ [][RefineNext]_vars

(***************************************************************************)
(* One trial (generate_trial), with the layers (generate_multipath_layer)  *)
(* and the paths (generate_single_path) it runs.                           *)
(***************************************************************************)

\* What a request for auxiliary code comes back as, after extract_cpp_code
\* or extract_python_code: no response, nothing left after the cleanup, or
\* a code.
EmptyText == "empty"
AuxiliaryCodes(language) == IF language = "cpp" THEN {"x1"} ELSE {"y1"}
AuxiliaryResponses(language) == {NoResponse, EmptyText} \cup AuxiliaryCodes(language)

\* How the verifier answers during a trial: the code passes, or it has a
\* syntax error.
TrialVerifierBehaviours ==
    {v \in VerifierBehaviours : v.syn = "error" \/ v.fn = "pass"}

\* During a trial the cache file is written without a failure.
TrialSaveOutcomes == {"written"}

\* The generators the model runs a trial of: the full pipeline over all
\* layers, a single path with the deepest repair loop, a repair loop of no
\* iterations, caching without repair, no caching at all, one direct path
\* over the most layers, and one chained path.
FullPipeline(a) ==
    /\ a.enable_quality_caching /\ a.enable_early_stopping /\ a.enable_self_refinement
    /\ a.max_self_refinement_iterations = 1
    /\ a.path_config = <<"direct", "cpp">>
    /\ a.num_layers = MaxLayers
    /\ a.n_select = MaxSelect

DeepRepair(a) ==
    /\ a.enable_quality_caching /\ ~a.enable_early_stopping /\ a.enable_self_refinement
    /\ a.max_self_refinement_iterations = MaxIterations
    /\ a.path_config = <<"cpp">>
    /\ a.num_layers = 1
    /\ a.n_select = 1

NoIterations(a) ==
    /\ a.enable_quality_caching /\ a.enable_self_refinement
    /\ a.max_self_refinement_iterations = 0
    /\ a.path_config = <<"direct", "cpp">>
    /\ a.num_layers = 1
    /\ a.n_select = 1

CachingOnly(a) ==
    /\ a.enable_quality_caching /\ ~a.enable_early_stopping /\ ~a.enable_self_refinement
    /\ a.max_self_refinement_iterations = 0
    /\ a.path_config = <<"python", "direct">>
    /\ a.num_layers = MaxLayers
    /\ a.n_select \in {0, 1}

NoCaching(a) ==
    /\ ~a.enable_quality_caching
    /\ a.max_self_refinement_iterations = 0
    /\ a.path_config = <<"direct", "cpp">>
    /\ a.num_layers \in {0, MaxLayers}
    /\ a.n_select \in {1, MaxSelect}

DeepLayers(a) ==
    /\ a.enable_quality_caching /\ ~a.enable_early_stopping /\ ~a.enable_self_refinement
    /\ a.max_self_refinement_iterations = 0
    /\ a.path_config = <<"direct">>
    /\ a.num_layers = MaxLayers + 1
    /\ a.n_select = MaxSelect

ChainedLayers(a) ==
    /\ a.enable_quality_caching /\ ~a.enable_early_stopping /\ ~a.enable_self_refinement
    /\ a.max_self_refinement_iterations = 0
    /\ a.path_config = <<"cpp">>
    /\ a.num_layers = MaxLayers
    /\ a.n_select = 1

\* One layer with the direct path only, with and without early stopping
\* and self-refinement.
SingleDirect(a) ==
    /\ a.enable_quality_caching
    /\ a.max_self_refinement_iterations = (IF a.enable_self_refinement THEN 1 ELSE 0)
    /\ a.path_config = <<"direct">>
    /\ a.num_layers = 1
    /\ a.n_select \in {0, 1}

TrialGenerators ==
    {Construct(a) : a \in {x \in ConstructorArgs :
         \/ FullPipeline(x) \/ DeepRepair(x) \/ NoIterations(x)
         \/ CachingOnly(x) \/ NoCaching(x) \/ DeepLayers(x)
         \/ ChainedLayers(x) \/ SingleDirect(x)}}

(***************************************************************************)
(* The generator of MoA_verify.py (EnhancedMoAHDLGenerator): every layer   *)
(* asks each of its models, layer 0 with the initial prompt and the later  *)
(* layers with an aggregation prompt over the layer's input.               *)
(***************************************************************************)

\* self.n_select, which __init__ sets.
DefaultSelect == 3

ModelLists == {<<"m1">>, <<"m1", "m2">>}

EnhancedArgs ==
    [layer_models : ModelLists,
     num_layers : 0..(MaxLayers + 1),
     enable_quality_caching : BOOLEAN]

\* EnhancedMoAHDLGenerator.__init__. The class has no early stopping, no
\* repair loop and no paths: the fields of these hold that.
ConstructEnhanced(args) ==
    [layer_models |-> args.layer_models,
     num_layers |-> args.num_layers,
     enable_quality_caching |-> args.enable_quality_caching,
     n_select |-> DefaultSelect,
     path_config |-> <<>>,
     enable_early_stopping |-> FALSE,
     enable_self_refinement |-> FALSE,
     max_self_refinement_iterations |-> 0]

IsEnhanced(generator) == "layer_models" \in DOMAIN generator

\* The generators of this class the model runs a trial of: quality caching
\* with two models in one layer and with one model over the most layers,
\* and the standard mode with one model, with layers and without.
EnhancedCaching(a) ==
    /\ a.enable_quality_caching
    /\ \/ a.layer_models = <<"m1", "m2">> /\ a.num_layers = 1
       \/ a.layer_models = <<"m1">> /\ a.num_layers = MaxLayers + 1

EnhancedStandard(a) ==
    /\ ~a.enable_quality_caching
    /\ a.layer_models = <<"m1">>
    /\ a.num_layers \in {0, MaxLayers}

EnhancedGenerators ==
    {ConstructEnhanced(a) : a \in {x \in EnhancedArgs :
         EnhancedCaching(x) \/ EnhancedStandard(x)}}

\* Config.N_SAMPLES for the batch a generator runs: several trials for the
\* generators with the shortest trials, one for the others.
BatchSizes(generator) ==
    IF \/ ChainedLayers(generator)
       \/ NoIterations(generator) /\ ~generator.enable_early_stopping
    THEN {MaxTrials}
    ELSE {1}

\* The result dict of generate_single_path. first_score is history: the
\* score of the first evaluation of the path's code (none without one).
PathResult(path_type, hdl_code, quality, original_quality, intermediate_code, intermediate_language, first_score) ==
    [code |-> hdl_code,
     quality_score |-> quality,
     original_quality |-> original_quality,
     path |-> IF path_type # "direct" THEN
                  IF path_type = "cpp" THEN "cpp_chain" ELSE "python_chain"
              ELSE "direct",
     intermediate |->
         IF intermediate_code # NoValue /\ intermediate_language # NoValue
         THEN [language |-> intermediate_language, code |-> intermediate_code]
         ELSE NoIntermediate,
     first_score |-> first_score]

\* Faulty variant of PerfectCode: the code of the layer's first output is
\* taken when some output of the layer has quality_score 1.0.
PerfectCodeFirstOutput(outputs) ==
    IF \E i \in 1..Len(outputs) : outputs[i].quality_score = 100
    THEN outputs[1].code
    ELSE NoValue

\* The early-stop scan of generate_trial: the code of the first output of
\* the layer with quality_score 1.0, or None.
RECURSIVE PerfectCode(_)
PerfectCode(outputs) ==
    IF outputs = <<>> THEN NoValue
    ELSE IF Head(outputs).quality_score = 100 THEN Head(outputs).code
    ELSE PerfectCode(Tail(outputs))

\* Faulty variant of ForwardFeed: with caching, the best candidates of the
\* layer before only.
ForwardFeedOfLayerBefore(idx) ==
    IF idx = 0 THEN <<>>
    ELSE LET sorted_codes ==
                 IF cfg.enable_quality_caching
                 THEN SortedByScore(cache_data.layer_outputs[idx - 1])
                 ELSE SortedByScore(current_layer_outputs)
         IN SubSeq(sorted_codes, 1, Min(cfg.n_select, Len(sorted_codes)))

\* The forward-feed input of a layer, at the top of the loop of
\* generate_trial.
ForwardFeed(idx) ==
    IF idx = 0 THEN <<>>
    ELSE IF cfg.enable_quality_caching
         THEN get_top_quality_codes(cache_data, cfg.n_select, idx - 1)
         ELSE IF current_layer_outputs # <<>>
              THEN LET sorted_codes == SortedByScore(current_layer_outputs)
                   IN SubSeq(sorted_codes, 1, Min(cfg.n_select, Len(sorted_codes)))
              ELSE <<>>

\* Faulty variant of References: no reference is taken from the cache.
ReferencesNotTaken(idx, previous) == NoReference

\* The references generate_multipath_layer takes from the cache.
References(idx, previous) ==
    IF cfg.enable_quality_caching /\ previous # <<>> /\ idx > 0
    THEN [g \in Languages |->
              get_best_intermediate_code(cache_data, g, idx - 1).code]
    ELSE NoReference

\* The head of generate_trial: the cache of the trial is constructed. Time
\* is counted from the creation of the cache.
BeginTrial ==
    /\ pc = "start"
    /\ ~IsEnhanced(cfg)
    /\ pc' = "layer"
    /\ IF cfg.enable_quality_caching
       THEN /\ cache_data' = NewCache(trial_num)
            /\ \E o \in TrialSaveOutcomes : cache_file' = save_cache("absent", o)
            /\ clock' = 0
            /\ input_log' = [l \in LayerIndices |-> <<>>]
       ELSE UNCHANGED cacheVars
    /\ layer_idx' = 0
    /\ current_layer_outputs' = <<>>
    /\ UNCHANGED <<path_idx, previous_codes, reference,
                   final_input, attempt, result, outcome, trial_hist>>
    /\ UNCHANGED <<evalVars, cfg, trial_num, n_samples, refineVars>>

\* The top of the layer loop and the head of generate_multipath_layer.
StartLayer ==
    /\ pc = "layer"
    /\ layer_idx < cfg.num_layers
    /\ LET previous == ForwardFeed(layer_idx)
       IN /\ previous_codes' = previous
          /\ reference' = References(layer_idx, previous)
    /\ current_layer_outputs' = <<>>
    /\ path_idx' = 1
    /\ pc' = "path"
    /\ trial_hist' = [trial_hist EXCEPT !.layers_started = @ + 1]
    /\ UNCHANGED <<layer_idx, final_input, attempt, result, outcome>>
    /\ UNCHANGED <<evalVars, cacheVars, cfg, trial_num, n_samples, refineVars>>

\* The path yields no candidate: on to the next path.
SkipPath ==
    /\ path_idx' = path_idx + 1
    /\ UNCHANGED <<pc, current_layer_outputs, refineVars>>

\* The path yields a validated HDL code: the repair loop is called, or the
\* code is scored and the result appended.
KeepPath(path_type, hdl_code, intermediate_code, intermediate_language) ==
    IF cfg.enable_self_refinement /\ cfg.enable_quality_caching THEN
        /\ CallRefine(hdl_code, intermediate_code, intermediate_language)
        /\ pc' = "path_refine"
        /\ UNCHANGED <<path_idx, current_layer_outputs>>
    ELSE
        /\ IF cfg.enable_quality_caching THEN
               \E v \in TrialVerifierBehaviours :
                   LET quality == evaluate_quality(Text(hdl_code), v.syn, v.fn)
                   IN current_layer_outputs' =
                          Append(current_layer_outputs,
                                 PathResult(path_type, hdl_code, quality, quality,
                                            intermediate_code, intermediate_language,
                                            quality))
           ELSE
               current_layer_outputs' =
                   Append(current_layer_outputs,
                          PathResult(path_type, hdl_code, 0, 0, intermediate_code,
                                     intermediate_language, NoScore))
        /\ path_idx' = path_idx + 1
        /\ UNCHANGED <<pc, refineVars>>

\* The translation round-trip of a chained path, and what follows it.
TranslatePath(path_type, intermediate_code) ==
    \E response \in HdlResponses :
        IF response \in Codes
        THEN KeepPath(path_type, response, intermediate_code, path_type)
        ELSE SkipPath

\* History: the requests a path issued, and the auxiliary code it
\* translated.
LogPath(path_type, auxiliary, aux_requests, hdl_requests) ==
    [trial_hist EXCEPT
         !.requests = @ + aux_requests + hdl_requests,
         !.last_path = [layer |-> layer_idx, path |-> path_type,
                        auxiliary |-> auxiliary,
                        aux_requests |-> aux_requests,
                        hdl_requests |-> hdl_requests]]

\* generate_single_path up to the call of the repair loop, or to its return
\* when the repair loop is not called.
GeneratePath ==
    /\ pc = "path"
    /\ path_idx <= Len(cfg.path_config)
    /\ LET path_type == cfg.path_config[path_idx]
       IN IF path_type = "direct" THEN
              /\ \E response \in HdlResponses :
                     IF response \in Codes
                     THEN KeepPath(path_type, response, NoValue, NoValue)
                     ELSE SkipPath
              /\ trial_hist' = LogPath(path_type, NoValue, 0, 1)
          ELSE IF reference[path_type] # NoValue THEN
              /\ TranslatePath(path_type, reference[path_type])
              /\ trial_hist' = LogPath(path_type, reference[path_type], 0, 1)
          ELSE
              \E auxiliary \in AuxiliaryResponses(path_type) :
                  IF auxiliary \in {NoResponse, EmptyText}
                  THEN /\ SkipPath
                       /\ trial_hist' = LogPath(path_type, NoValue, 1, 0)
                  ELSE /\ TranslatePath(path_type, auxiliary)
                       /\ trial_hist' = LogPath(path_type, auxiliary, 1, 1)
    /\ UNCHANGED <<layer_idx, previous_codes, reference, final_input, attempt,
                   result, outcome>>
    /\ UNCHANGED <<evalVars, cacheVars, cfg, trial_num, n_samples>>

\* The repair loop running for a path or for the aggregated code.
TrialRefineEntry ==
    /\ pc \in {"path_refine", "agg_refine"}
    /\ RefineEvaluateOriginal(TrialVerifierBehaviours)
    /\ UNCHANGED <<evalVars, cacheVars, cfg, trialVars>>

TrialRefineLoop ==
    /\ pc \in {"path_refine", "agg_refine"}
    /\ RefineIteration(TrialVerifierBehaviours)
    /\ UNCHANGED <<evalVars, cacheVars, cfg, trialVars>>

\* generate_single_path after the repair loop returned.
FinishPath ==
    /\ pc = "path_refine"
    /\ rpc = "returned"
    /\ current_layer_outputs' =
           Append(current_layer_outputs,
                  PathResult(cfg.path_config[path_idx], rf_ret.code, rf_ret.quality,
                             rf_ret.original_quality, rf.intermediate_code,
                             rf.intermediate_language, rf_hist.first_eval))
    /\ path_idx' = path_idx + 1
    /\ pc' = "path"
    /\ rpc' = "idle"
    /\ rf' = NoLocals
    /\ rf_ret' = NoReturn
    /\ rf_hist' = NoHistory
    /\ trial_hist' = [trial_hist EXCEPT !.requests = @ + rf_hist.requests]
    /\ UNCHANGED <<layer_idx, previous_codes, reference, final_input, attempt,
                   result, outcome>>
    /\ UNCHANGED <<evalVars, cacheVars, cfg, trial_num, n_samples>>

\* Faulty variant of LayerComplete: the layer also ends as soon as one of
\* its paths has yielded a candidate with score 1.0.
LayerCompleteOrPerfect ==
    \/ path_idx > Len(cfg.path_config)
    \/ cfg.enable_early_stopping /\ PerfectCode(current_layer_outputs) # NoValue

\* The loop of generate_multipath_layer over path_config has run out.
LayerComplete == path_idx > Len(cfg.path_config)

\* The end of a layer in generate_trial: the record into the cache and the
\* early-stop check.
EndLayer ==
    /\ pc = "path"
    /\ LayerComplete
    /\ IF cfg.enable_quality_caching /\ current_layer_outputs # <<>> THEN
           /\ \E o \in TrialSaveOutcomes :
                  RecordLayer(layer_idx, current_layer_outputs, o)
           /\ IF cfg.enable_early_stopping
                 /\ PerfectCode(current_layer_outputs) # NoValue
              THEN /\ pc' = "done"
                   /\ result' = PerfectCode(current_layer_outputs)
                   /\ outcome' = "EarlyStop"
                   /\ UNCHANGED layer_idx
              ELSE /\ pc' = "layer"
                   /\ layer_idx' = layer_idx + 1
                   /\ UNCHANGED <<result, outcome>>
       ELSE
           /\ pc' = "layer"
           /\ layer_idx' = layer_idx + 1
           /\ UNCHANGED <<result, outcome, cacheVars>>
    /\ trial_hist' = [trial_hist EXCEPT
                          !.layer_counts = Append(@, Len(current_layer_outputs))]
    /\ UNCHANGED <<path_idx, previous_codes, reference, current_layer_outputs,
                   final_input, attempt>>
    /\ UNCHANGED <<evalVars, cfg, trial_num, n_samples, refineVars>>

\* Faulty variant of FallbackCode: the code of the last of the candidates
\* given to the aggregation.
FallbackCodeOfLast(candidates) == candidates[Len(candidates)].code

\* The code returned after "OK(best)": final_input[0]["code"], and
\* top_outputs[0]["code"] without caching.
FallbackCode(candidates) == candidates[1].code

\* The head of the final aggregation phase: the candidates to synthesize.
BeginAggregation ==
    /\ pc = "layer"
    /\ layer_idx >= cfg.num_layers
    /\ IF cfg.enable_quality_caching THEN
           LET top == get_top_quality_codes(cache_data, cfg.n_select, NoLayer)
           IN /\ final_input' = top
              /\ IF top # <<>>
                 THEN /\ pc' = "agg"
                      /\ UNCHANGED <<result, outcome>>
                 ELSE /\ pc' = "done"
                      /\ result' = NoValue
                      /\ outcome' = "Failure"
       ELSE IF current_layer_outputs # <<>> THEN
           LET sorted_outputs == SortedByScore(current_layer_outputs)
               top == SubSeq(sorted_outputs, 1,
                             Min(cfg.n_select, Len(sorted_outputs)))
           IN /\ final_input' = top
              /\ IF Len(top) > 1
                 THEN /\ pc' = "agg"
                      /\ UNCHANGED <<result, outcome>>
                 ELSE IF top # <<>>
                 THEN /\ pc' = "done"
                      /\ result' = FallbackCode(top)
                      /\ outcome' = "Fallback"
                 ELSE /\ pc' = "done"
                      /\ result' = NoValue
                      /\ outcome' = "Failure"
       ELSE
           /\ final_input' = <<>>
           /\ pc' = "done"
           /\ result' = NoValue
           /\ outcome' = "Failure"
    /\ attempt' = 0
    /\ trial_hist' = [trial_hist EXCEPT !.agg_entered = TRUE]
    /\ UNCHANGED <<layer_idx, path_idx, previous_codes, reference,
                   current_layer_outputs>>
    /\ UNCHANGED <<evalVars, cacheVars, cfg, trial_num, n_samples, refineVars>>

\* Faulty variant of LastAttempt: a loop of three attempts.
LastAttemptOfThree(n) == n = 2

\* 'for attempt in range(2)': the attempt numbered 1 is the last one.
LastAttempt(n) == n = 1

\* One synthesis attempt of the final aggregation, with the fallback after
\* the second failed one.
AggregateAttempt ==
    /\ pc = "agg"
    /\ \E response \in HdlResponses :
        /\ trial_hist' = [trial_hist EXCEPT
                              !.requests = @ + 1,
                              !.agg_requests = @ + 1,
                              !.agg_valid = Append(@, response \in Codes),
                              !.agg_codes = Append(@, response)]
        /\ IF response \in Codes THEN
               IF cfg.enable_quality_caching /\ cfg.enable_self_refinement THEN
                   /\ CallRefine(response, NoValue, NoValue)
                   /\ pc' = "agg_refine"
                   /\ UNCHANGED <<attempt, result, outcome>>
               ELSE
                   /\ pc' = "done"
                   /\ result' = response
                   /\ outcome' = "Success"
                   /\ UNCHANGED <<attempt, refineVars>>
           ELSE IF ~LastAttempt(attempt) THEN
               /\ attempt' = attempt + 1
               /\ UNCHANGED <<pc, result, outcome, refineVars>>
           ELSE
               /\ pc' = "done"
               /\ result' = FallbackCode(final_input)
               /\ outcome' = "Fallback"
               /\ UNCHANGED <<attempt, refineVars>>
    /\ UNCHANGED <<layer_idx, path_idx, previous_codes, reference,
                   current_layer_outputs, final_input>>
    /\ UNCHANGED <<evalVars, cacheVars, cfg, trial_num, n_samples>>

\* generate_trial after the repair loop returned the aggregated code.
FinishAggregation ==
    /\ pc = "agg_refine"
    /\ rpc = "returned"
    /\ pc' = "done"
    /\ result' = rf_ret.code
    /\ outcome' = "Success"
    /\ UNCHANGED <<layer_idx, path_idx, previous_codes, reference,
                   current_layer_outputs, final_input, attempt, trial_hist>>
    /\ UNCHANGED <<evalVars, cacheVars, cfg, trial_num, n_samples, refineVars>>

\* An exception raised in refine_hdl_code is caught nowhere on the way up.
PropagateFault ==
    /\ pc \in {"path_refine", "agg_refine"}
    /\ rpc = "raised"
    /\ pc' = "raised"
    /\ outcome' = "Raised"
    /\ UNCHANGED <<layer_idx, path_idx, previous_codes, reference,
                   current_layer_outputs, final_input, attempt, result, trial_hist>>
    /\ UNCHANGED <<evalVars, cacheVars, cfg, trial_num, n_samples, refineVars>>

Init ==
    /\ EvalStart
    /\ cache_data = EmptyCache
    /\ cache_file = "absent"
    /\ clock = 0
    /\ input_log = [l \in LayerIndices |-> <<>>]
    /\ cfg \in TrialGenerators \cup EnhancedGenerators
    /\ n_samples \in BatchSizes(cfg)
    /\ trial_num = 1
    /\ RefineIdle
    /\ pc = "start"
    /\ layer_idx = 0
    /\ path_idx = 0
    /\ previous_codes = <<>>
    /\ reference = NoReference
    /\ current_layer_outputs = <<>>
    /\ final_input = <<>>
    /\ attempt = 0
    /\ result = NoValue
    /\ outcome = NoValue
    /\ trial_hist = NoTrialHistory

\* The head of generate_moa_trial: generate_direct_trial is called when
\* there are no layers, else the cache of the trial is obtained.
EnhancedBeginTrial ==
    /\ pc = "start"
    /\ IsEnhanced(cfg)
    /\ IF cfg.num_layers = 0 THEN
           /\ pc' = "direct"
           /\ UNCHANGED cacheVars
       ELSE
           /\ pc' = "moa_layer"
           /\ IF cfg.enable_quality_caching
              THEN /\ cache_data' = NewCache(trial_num)
                   /\ \E o \in TrialSaveOutcomes :
                          cache_file' = save_cache("absent", o)
                   /\ clock' = 0
                   /\ input_log' = [l \in LayerIndices |-> <<>>]
              ELSE UNCHANGED cacheVars
    /\ layer_idx' = 0
    /\ current_layer_outputs' = <<>>
    /\ attempt' = 0
    /\ UNCHANGED <<path_idx, previous_codes, reference, final_input, result,
                   outcome, trial_hist>>
    /\ UNCHANGED <<evalVars, cfg, trial_num, n_samples, refineVars>>

\* One attempt of generate_direct_trial.
DirectAttempt ==
    /\ pc = "direct"
    /\ \E response \in HdlResponses :
        IF response \in Codes THEN
            /\ pc' = "done"
            /\ result' = response
            /\ outcome' = "Success"
            /\ UNCHANGED attempt
        ELSE IF attempt = 0 THEN
            /\ attempt' = 1
            /\ UNCHANGED <<pc, result, outcome>>
        ELSE
            /\ pc' = "done"
            /\ result' = NoValue
            /\ outcome' = "Failure"
            /\ UNCHANGED attempt
    /\ UNCHANGED <<layer_idx, path_idx, previous_codes, reference,
                   current_layer_outputs, final_input, trial_hist>>
    /\ UNCHANGED <<evalVars, cacheVars, cfg, trial_num, n_samples, refineVars>>

\* top_quality_codes of a layer after the first, in quality mode.
TopQualityCodes(idx) ==
    get_top_quality_codes(cache_data, cfg.n_select, idx - 1)

\* Faulty variant of InputData: the outputs of the layer before in both
\* modes.
InputDataOfLayerBefore(idx) == current_layer_outputs

\* input_data of a layer after the first. In standard mode it is
\* layer_outputs, which holds the outputs of the layer before:
\* current_layer_outputs until the layer empties it.
InputData(idx) ==
    IF cfg.enable_quality_caching
    THEN TopQualityCodes(idx)
    ELSE current_layer_outputs

\* The top of the layer loop of generate_moa_trial: a layer after the first
\* returns None when it has no input.
EnhancedStartLayer ==
    /\ pc = "moa_layer"
    /\ layer_idx < cfg.num_layers
    /\ LET input_data == IF layer_idx = 0 THEN <<>> ELSE InputData(layer_idx)
       IN IF layer_idx > 0 /\ input_data = <<>> THEN
              /\ pc' = "done"
              /\ result' = NoValue
              /\ outcome' = "Failure"
              /\ UNCHANGED <<path_idx, previous_codes, current_layer_outputs,
                             trial_hist>>
          ELSE
              /\ pc' = "model"
              /\ previous_codes' = input_data
              /\ current_layer_outputs' = <<>>
              /\ path_idx' = 1
              /\ trial_hist' = [trial_hist EXCEPT !.layers_started = @ + 1]
              /\ UNCHANGED <<result, outcome>>
    /\ UNCHANGED <<layer_idx, reference, final_input, attempt>>
    /\ UNCHANGED <<evalVars, cacheVars, cfg, trial_num, n_samples, refineVars>>

\* A validated code of a model: scored and collected as a dict in quality
\* mode, collected as it is in standard mode.
CollectCode(code, prompt_type) ==
    IF cfg.enable_quality_caching THEN
        \E v \in TrialVerifierBehaviours :
            current_layer_outputs' =
                Append(current_layer_outputs,
                       ModelOutput(code, cfg.layer_models[path_idx],
                                   evaluate_quality(Text(code), v.syn, v.fn),
                                   prompt_type))
    ELSE
        current_layer_outputs' = Append(current_layer_outputs, code)

\* One model of a layer: its request, and in layer 0 the retry after a
\* response without a valid module.
AskModel ==
    /\ pc = "model"
    /\ path_idx <= Len(cfg.layer_models)
    /\ \E response \in HdlResponses :
        IF response \in Codes THEN
            CollectCode(response, IF layer_idx = 0 THEN "initial" ELSE "aggregation")
        ELSE IF response = InvalidText /\ layer_idx = 0 THEN
            \E retry \in HdlResponses :
                IF retry \in Codes
                THEN CollectCode(retry, "initial_retry")
                ELSE UNCHANGED current_layer_outputs
        ELSE
            UNCHANGED current_layer_outputs
    /\ path_idx' = path_idx + 1
    /\ UNCHANGED <<pc, layer_idx, previous_codes, reference, final_input,
                   attempt, result, outcome, trial_hist>>
    /\ UNCHANGED <<evalVars, cacheVars, cfg, trial_num, n_samples, refineVars>>

\* The end of a layer of generate_moa_trial: the record into the cache.
EnhancedEndLayer ==
    /\ pc = "model"
    /\ path_idx > Len(cfg.layer_models)
    /\ IF cfg.enable_quality_caching /\ current_layer_outputs # <<>>
       THEN \E o \in TrialSaveOutcomes :
                RecordModelLayer(layer_idx, current_layer_outputs, o)
       ELSE UNCHANGED cacheVars
    /\ pc' = "moa_layer"
    /\ layer_idx' = layer_idx + 1
    /\ trial_hist' = [trial_hist EXCEPT
                          !.layer_counts = Append(@, Len(current_layer_outputs))]
    /\ UNCHANGED <<path_idx, previous_codes, reference, current_layer_outputs,
                   final_input, attempt, result, outcome>>
    /\ UNCHANGED <<evalVars, cfg, trial_num, n_samples, refineVars>>

\* The head of the final aggregation of generate_moa_trial.
EnhancedBeginAggregation ==
    /\ pc = "moa_layer"
    /\ layer_idx >= cfg.num_layers
    /\ LET input == IF cfg.enable_quality_caching
                    THEN get_top_quality_codes(cache_data, cfg.n_select, NoLayer)
                    ELSE current_layer_outputs
       IN /\ final_input' = input
          /\ IF input # <<>>
             THEN /\ pc' = "moa_agg"
                  /\ UNCHANGED <<result, outcome>>
             ELSE /\ pc' = "done"
                  /\ result' = NoValue
                  /\ outcome' = "Failure"
    /\ attempt' = 0
    /\ trial_hist' = [trial_hist EXCEPT !.agg_entered = TRUE]
    /\ UNCHANGED <<layer_idx, path_idx, previous_codes, reference,
                   current_layer_outputs>>
    /\ UNCHANGED <<evalVars, cacheVars, cfg, trial_num, n_samples, refineVars>>

\* One attempt of the final aggregation of generate_moa_trial, with the
\* last resort after the second failed one.
EnhancedAggregateAttempt ==
    /\ pc = "moa_agg"
    /\ \E response \in HdlResponses :
        /\ trial_hist' = [trial_hist EXCEPT
                              !.agg_requests = @ + 1,
                              !.agg_valid = Append(@, response \in Codes),
                              !.agg_codes = Append(@, response)]
        /\ IF response \in Codes THEN
               /\ pc' = "done"
               /\ result' = response
               /\ outcome' = "Success"
               /\ UNCHANGED attempt
           ELSE IF attempt = 0 THEN
               /\ attempt' = 1
               /\ UNCHANGED <<pc, result, outcome>>
           ELSE IF cfg.enable_quality_caching /\ final_input # <<>> THEN
               /\ pc' = "done"
               /\ result' = final_input[1].code
               /\ outcome' = "Fallback"
               /\ UNCHANGED attempt
           ELSE
               /\ pc' = "done"
               /\ result' = NoValue
               /\ outcome' = "Failure"
               /\ UNCHANGED attempt
    /\ UNCHANGED <<layer_idx, path_idx, previous_codes, reference,
                   current_layer_outputs, final_input>>
    /\ UNCHANGED <<evalVars, cacheVars, cfg, trial_num, n_samples, refineVars>>

\* The loop of generate_design_trials: after a trial returned, the next
\* one is called, with every local of generate_trial new. The cache object
\* of the trial that returned stays as it is until another is constructed.
NextTrial ==
    /\ pc = "done"
    /\ trial_num < n_samples
    /\ trial_num' = trial_num + 1
    /\ pc' = "start"
    /\ layer_idx' = 0
    /\ path_idx' = 0
    /\ previous_codes' = <<>>
    /\ reference' = NoReference
    /\ current_layer_outputs' = <<>>
    /\ final_input' = <<>>
    /\ attempt' = 0
    /\ result' = NoValue
    /\ outcome' = NoValue
    /\ trial_hist' = [NoTrialHistory EXCEPT
                          !.earlier_recorded =
                              \/ trial_hist.earlier_recorded
                              \/ cache_data.total_hdl_codes > 0]
    /\ rpc' = "idle"
    /\ rf' = NoLocals
    /\ rf_ret' = NoReturn
    /\ rf_hist' = NoHistory
    /\ UNCHANGED <<evalVars, cacheVars, cfg, n_samples>>

Next ==
    \/ BeginTrial
    \/ StartLayer
    \/ GeneratePath
    \/ TrialRefineEntry
    \/ TrialRefineLoop
    \/ FinishPath
    \/ EndLayer
    \/ BeginAggregation
    \/ AggregateAttempt
    \/ FinishAggregation
    \/ PropagateFault
    \/ EnhancedBeginTrial
    \/ DirectAttempt
    \/ EnhancedStartLayer
    \/ AskModel
    \/ EnhancedEndLayer
    \/ EnhancedBeginAggregation
    \/ EnhancedAggregateAttempt
    \/ NextTrial

Spec == Init /\ [][Next]_vars

(***************************************************************************)
(* One call of generate_trial of MoA_HLS.py, run as a sequential program   *)
(* runs it: a call that has a next statement executes it, and every        *)
(* request to the generation service and every verifier run returns (each  *)
(* has a timeout, llm_interface.py 57-61 and quality_evaluator.py 58-110). *)
(***************************************************************************)

\* The generators whose call is followed to its end: every switch of the
\* constructor both ways, one and several layers, one and two paths.
TerminatingGenerators ==
    {Construct(a) : a \in {x \in ConstructorArgs :
         \/ DeepRepair(x) \/ NoIterations(x) \/ NoCaching(x)
         \/ ChainedLayers(x) \/ SingleDirect(x)}}

TrialInit == Init /\ cfg \in TerminatingGenerators

TrialNext ==
    \/ BeginTrial
    \/ StartLayer
    \/ GeneratePath
    \/ TrialRefineEntry
    \/ TrialRefineLoop
    \/ FinishPath
    \/ EndLayer
    \/ BeginAggregation
    \/ AggregateAttempt
    \/ FinishAggregation
    \/ PropagateFault

SpecTerminating == TrialInit /\ [][TrialNext]_vars /\ WF_vars(TrialNext)

(***************************************************************************)
(* Claims about the quality evaluator, checked under SpecEval.             *)
(***************************************************************************)

\* The two evaluations a state of the evaluator holds.
EvalCur == [stage |-> estage, score |-> escore]
EvalPairs == {<<EvalCur, eprev>>, <<eprev, EvalCur>>}

\* C2: non-blank code scores exactly 1.0 when syntax check and functional
\* simulation both pass, within [0, 0.6] when the syntax check fails, and
\* within [0.45, 0.85] when syntax passes but the functional run fails.
C2_ScoreRanges ==
    epc = "idle" =>
        /\ estage = "pass" => escore = 100
        /\ estage = "syntax_fail" => escore \in 0..60
        /\ estage = "func_fail" => escore \in 45..85

\* C2 witness: a functional failure scored at the floor, right after a
\* syntax failure scored at the fallback ceiling.
C2_Witness ==
    /\ epc = "idle"
    /\ estage = "func_fail" /\ escore = 45
    /\ eprev.stage = "syntax_fail" /\ eprev.score = 60

\* C3 as stated: of any two evaluated candidates, passing > syntax-valid but
\* functionally failing > syntax-failing >= blank, strictly where stated.
C3_StrictStageOrder ==
    epc = "idle" =>
        \A p \in EvalPairs :
            /\ (p[1].stage = "pass"
                /\ p[2].stage \in {"func_fail", "syntax_fail", "blank"})
               => p[1].score > p[2].score
            /\ (p[1].stage = "func_fail" /\ p[2].stage \in {"syntax_fail", "blank"})
               => p[1].score > p[2].score
            /\ (p[1].stage = "syntax_fail" /\ p[2].stage = "blank")
               => p[1].score >= p[2].score

\* C3 amended: a passing candidate scores strictly above every other one; a
\* syntax-valid failing candidate scores strictly above blank code, and
\* strictly above a syntax-failing candidate unless both scores lie in the
\* overlap [0.45, 0.6] of the two ranges; a syntax-failing candidate scores
\* at least as high as blank code.
C3_StageOrderUpToOverlap ==
    epc = "idle" =>
        \A p \in EvalPairs :
            /\ (p[1].stage = "pass"
                /\ p[2].stage \in {"func_fail", "syntax_fail", "blank"})
               => p[1].score > p[2].score
            /\ (p[1].stage = "func_fail" /\ p[2].stage = "blank")
               => p[1].score > p[2].score
            /\ (p[1].stage = "func_fail" /\ p[2].stage = "syntax_fail")
               => \/ p[1].score > p[2].score
                  \/ (45 <= p[1].score /\ p[1].score <= p[2].score
                      /\ p[2].score <= 60)
            /\ (p[1].stage = "syntax_fail" /\ p[2].stage = "blank")
               => p[1].score >= p[2].score

\* C3 witness: a syntax-valid failing candidate and a syntax-failing one,
\* the second ranked above the first.
C3_Witness ==
    /\ epc = "idle"
    /\ estage = "syntax_fail" /\ escore = 55
    /\ eprev.stage = "func_fail" /\ eprev.score = 50

(***************************************************************************)
(* Claims about the artifact cache.                                        *)
(***************************************************************************)

Range(seq) == {seq[i] : i \in 1..Len(seq)}

\* The arguments of a retrieval: any k, no ceiling or any layer as ceiling.
Ks == 0..(MaxEntries + 1)
Ceilings == {NoLayer} \cup RecordedLayers

WithinCeiling(layer, up_to_layer) ==
    up_to_layer = NoLayer \/ layer <= up_to_layer

\* The candidates stored within a ceiling.
StoredEntries(up_to_layer) ==
    UNION {Range(cache_data.layer_outputs[l]) :
               l \in {x \in LayerIndices : WithinCeiling(x, up_to_layer)}}

\* The auxiliary entries of a language within a ceiling.
StoredIntermediates(language, up_to_layer) ==
    {e \in Range(cache_data.intermediate_codes[language]) :
         WithinCeiling(e.layer_idx, up_to_layer)}

\* The hdl_output that an auxiliary entry was recorded with.
OwnerInput(e) == input_log[e.layer_idx][e.hdl_reference_idx + 1]

\* Position of a layer in the order in which the layers were first recorded.
KeyPosition(layer) ==
    CHOOSE i \in 1..Len(cache_data.layer_keys) : cache_data.layer_keys[i] = layer

\* C5: top_k(k, max_layer) is in non-increasing score order, holds only
\* stored candidates within the ceiling, each once, has length
\* min(k, number of candidates within the ceiling), and leaves out no
\* candidate that scores strictly higher than a returned one.
C5_TopKOrderedBounded ==
    \A k \in Ks, up_to_layer \in Ceilings :
        LET r == get_top_quality_codes(cache_data, k, up_to_layer)
            eligible == StoredEntries(up_to_layer)
        IN /\ \A i \in 1..(Len(r) - 1) : r[i].quality_score >= r[i + 1].quality_score
           /\ \A i \in 1..Len(r) :
                  r[i] \in eligible /\ WithinCeiling(r[i].layer_idx, up_to_layer)
           /\ \A i, j \in 1..Len(r) : i # j => r[i] # r[j]
           /\ Len(r) = Min(k, Cardinality(eligible))
           /\ \A e \in eligible \ Range(r) :
                  \A i \in 1..Len(r) : e.quality_score <= r[i].quality_score

\* C5 witness: two candidates in layer 0 stored in ascending score order and
\* a higher-scoring one in layer 1, which a ceiling of 0 keeps out.
C5_Witness ==
    /\ Len(cache_data.layer_outputs[0]) = 2
    /\ Len(cache_data.layer_outputs[1]) = 1
    /\ cache_data.layer_outputs[0][1].quality_score
           < cache_data.layer_outputs[0][2].quality_score
    /\ cache_data.layer_outputs[0][2].quality_score
           < cache_data.layer_outputs[1][1].quality_score
    /\ Len(get_top_quality_codes(cache_data, 1, 0)) = 1

\* C6 as stated: candidates of equal score are returned in the order in
\* which they were recorded, whatever the order of the record calls.
C6_TiesInInsertionOrder ==
    \A k \in Ks, up_to_layer \in Ceilings :
        LET r == get_top_quality_codes(cache_data, k, up_to_layer)
        IN \A i, j \in 1..Len(r) :
               (i < j /\ r[i].quality_score = r[j].quality_score)
               => r[i].cached_at < r[j].cached_at

\* No record call for a layer followed a record call for a layer that was
\* first recorded after it.
RecordsNotInterleaved ==
    LET all == AllCodes(cache_data, cache_data.layer_keys, NoLayer)
    IN \A i, j \in 1..Len(all) : i < j => all[i].cached_at < all[j].cached_at

\* C6 amended: candidates of equal score are returned layer by layer, in
\* the order in which the layers were first recorded, and within a layer in
\* recording order; that is the insertion order whenever the record calls
\* were not interleaved across layers.
C6_TiesInLayerThenInsertionOrder ==
    /\ \A k \in Ks, up_to_layer \in Ceilings :
           LET r == get_top_quality_codes(cache_data, k, up_to_layer)
           IN \A i, j \in 1..Len(r) :
                  (i < j /\ r[i].quality_score = r[j].quality_score)
                  => \/ KeyPosition(r[i].layer_idx) < KeyPosition(r[j].layer_idx)
                     \/ /\ r[i].layer_idx = r[j].layer_idx
                        /\ r[i].cached_at < r[j].cached_at
    /\ RecordsNotInterleaved => C6_TiesInInsertionOrder

\* C6 witness: layer 0 recorded, then layer 1, then layer 0 again, all three
\* candidates with the same score.
C6_Witness ==
    /\ Len(cache_data.layer_outputs[0]) = 2
    /\ Len(cache_data.layer_outputs[1]) = 1
    /\ cache_data.layer_outputs[0][1].cached_at < cache_data.layer_outputs[1][1].cached_at
    /\ cache_data.layer_outputs[1][1].cached_at < cache_data.layer_outputs[0][2].cached_at
    /\ cache_data.layer_outputs[0][1].quality_score = cache_data.layer_outputs[1][1].quality_score
    /\ cache_data.layer_outputs[0][2].quality_score = cache_data.layer_outputs[1][1].quality_score

\* C7: best_auxiliary(language, max_layer) returns none exactly when no
\* auxiliary entry of the language lies within the ceiling, and otherwise
\* the code of such an entry whose owning candidate's original_quality is
\* maximal among them; entries above the ceiling are never returned.
C7_BestAuxiliary ==
    \A g \in Languages, up_to_layer \in Ceilings :
        LET r == get_best_intermediate_code(cache_data, g, up_to_layer)
            eligible == StoredIntermediates(g, up_to_layer)
        IN /\ (r = NoBest) <=> (eligible = {})
           /\ r # NoBest =>
                  \E e \in eligible :
                      /\ r.code = e.code
                      /\ r.language = g
                      /\ r.hdl_quality = OwnerInput(e).original_quality
                      /\ \A e2 \in eligible :
                             OwnerInput(e2).original_quality
                                 <= OwnerInput(e).original_quality

\* C7 witness: the better cpp artifact sits in layer 1, above a ceiling of 0
\* under which the lesser one of layer 0 is returned.
C7_Witness ==
    /\ get_best_intermediate_code(cache_data, "cpp", 0).code = "x2"
    /\ get_best_intermediate_code(cache_data, "cpp", NoLayer).code = "x1"
    /\ \E e \in StoredIntermediates("cpp", NoLayer) :
           e.layer_idx = 1 /\ e.code = "x1" /\ e.hdl_quality = 60

(***************************************************************************)
(* Claims about the repair loop, checked under SpecRefine.                 *)
(***************************************************************************)

\* C4: whichever exit the repair loop takes and however many iterations
\* ran, the original_quality it returns is the score of the first
\* evaluation of the input candidate; the local holds it throughout.
C4_OriginalQualityIsFirstScore ==
    /\ rpc = "returned" =>
           /\ rf_hist.first_eval # NoScore
           /\ rf_ret.original_quality = rf_hist.first_eval
    /\ rpc = "loop" => rf.original_quality = rf_hist.first_eval

\* C4 witness: the loop ran out of iterations after a repair raised the
\* score above the one measured at entry.
C4_Witness ==
    /\ rpc = "returned"
    /\ rf_hist.exit = "exhausted"
    /\ rf_ret.iterations = MaxIterations
    /\ rf_ret.quality > rf_hist.first_eval
    /\ rf_ret.original_quality = rf_hist.first_eval

\* C9: when the verdict of the evaluation at entry is "passed", the loop
\* has returned the input code with its score, 0 iterations and that score
\* as original score, and no generation request was issued.
C9_PassedAtEntryAccepted ==
    (rf_hist.evaluations = 1 /\ rf_hist.last_passed) =>
        /\ rpc = "returned"
        /\ rf_hist.exit = "accepted"
        /\ rf_ret.code = rf.original_code
        /\ rf_ret.quality = rf_hist.first_eval
        /\ rf_ret.iterations = 0
        /\ rf_ret.original_quality = rf_hist.first_eval
        /\ rf_hist.requests = 0

\* C9 witness: an enabled repair loop accepted its input at entry.
C9_Witness ==
    /\ cfg.enable_self_refinement
    /\ cfg.max_self_refinement_iterations >= 1
    /\ rpc = "returned"
    /\ rf_hist.exit = "accepted"
    /\ rf_hist.evaluations = 1
    /\ rf_ret.iterations = 0

\* C10: when the re-evaluation of iteration i yields "passed", the loop has
\* returned that iteration's candidate, its score, the count i and the
\* score recorded at entry, and the request of iteration i is the last one.
C10_PassedAtIterationAccepted ==
    (rf_hist.evaluations >= 2 /\ rf_hist.last_passed) =>
        /\ rpc = "returned"
        /\ rf_hist.exit = "accepted"
        /\ rf_ret.code = rf_hist.last_code
        /\ rf_ret.quality = rf_hist.last_quality
        /\ rf_ret.iterations = rf.iteration
        /\ rf_ret.iterations \in 1..cfg.max_self_refinement_iterations
        /\ rf_ret.original_quality = rf_hist.first_eval
        /\ rf_hist.requests = rf_ret.iterations
        /\ rf_hist.evaluations = rf_ret.iterations + 1

\* C10 witness: accepted at iteration 1 with iterations to spare, with
\* another code than the input.
C10_Witness ==
    /\ rpc = "returned"
    /\ rf_hist.exit = "accepted"
    /\ rf_ret.iterations = 1
    /\ cfg.max_self_refinement_iterations = MaxIterations
    /\ rf_ret.code # rf.original_code
    /\ rf_ret.original_quality < rf_ret.quality

(***************************************************************************)
(* Claims about the trial, checked under Spec.                             *)
(***************************************************************************)

\* The layers whose recorded candidates include one of score 1.0.
PerfectLayers ==
    {l \in LayerIndices :
         \E e \in Range(cache_data.layer_outputs[l]) : e.quality_score = 100}

\* C1: with early stop and caching enabled, once the candidates a layer i
\* produced include one of score 1.0, generate_trial has returned the code
\* of a score-1.0 candidate of layer i: no layer after i was started or
\* recorded, and no final-aggregation request was issued.
C1_EarlyStopReturnsPerfectCandidate ==
    (cfg.enable_early_stopping /\ cfg.enable_quality_caching /\ PerfectLayers # {}) =>
        LET i == CHOOSE l \in PerfectLayers : \A m \in PerfectLayers : l <= m
        IN /\ pc = "done"
           /\ outcome = "EarlyStop"
           /\ \E e \in Range(cache_data.layer_outputs[i]) :
                  e.quality_score = 100 /\ e.code = result
           /\ layer_idx = i
           /\ trial_hist.layers_started = i + 1
           /\ \A l \in LayerIndices : l > i => cache_data.layer_outputs[l] = <<>>
           /\ trial_hist.agg_requests = 0
           /\ final_input = <<>>

\* A trial stopped early at a layer that is not the last one, by a perfect
\* candidate that is not the first output of its layer.
C1_Witness ==
    /\ pc = "done"
    /\ outcome = "EarlyStop"
    /\ layer_idx + 1 < cfg.num_layers
    /\ Len(current_layer_outputs) = 2
    /\ current_layer_outputs[1].quality_score < 100
    /\ current_layer_outputs[1].code # result

\* C8: the ranking key of every auxiliary-index entry recorded during a
\* trial is the score the first evaluation gave the owning HDL candidate,
\* before any repair iteration, whatever score the repair loop ended with.
C8_AuxiliaryKeyIsPreRepairScore ==
    \A g \in Languages :
        \A e \in Range(cache_data.intermediate_codes[g]) :
            /\ OwnerInput(e).first_score # NoScore
            /\ e.hdl_quality = OwnerInput(e).first_score
            /\ OwnerInput(e).intermediate = [language |-> g, code |-> e.code]

\* An auxiliary entry whose owning candidate the repair loop raised above
\* its first score.
C8_Witness ==
    \E g \in Languages :
        \E e \in Range(cache_data.intermediate_codes[g]) :
            /\ pc # "idle"
            /\ OwnerInput(e).quality_score > OwnerInput(e).first_score
            /\ cache_data.layer_outputs[e.layer_idx][e.hdl_reference_idx + 1].quality_score
                   > e.hdl_quality

(***************************************************************************)
(* Further claims about the repair loop, checked under SpecRefine.         *)
(***************************************************************************)

\* The loop returned without a passing verdict: all rounds ran, or a round
\* got no response or a response without valid code.
Exhausted ==
    /\ rpc = "returned"
    /\ rf_hist.exit \in {"exhausted", NoResponse, InvalidText}

\* The returned code and score are those of the first evaluation that gave
\* the highest score seen.
ReturnsBestSeen ==
    \E i \in 1..Len(rf_hist.seen) :
        /\ \A j \in 1..Len(rf_hist.seen) :
               rf_hist.seen[j].quality <= rf_hist.seen[i].quality
        /\ \A j \in 1..(i - 1) : rf_hist.seen[j].quality < rf_hist.seen[i].quality
        /\ rf_ret.code = rf_hist.seen[i].code
        /\ rf_ret.quality = rf_hist.seen[i].quality

\* C11 as stated: a loop that ends exhausted returns the best-seen
\* candidate, its score, an iteration count equal to max_iterations, and
\* the original score.
C11_ExhaustedReturnsMaxIterations ==
    Exhausted =>
        /\ ReturnsBestSeen
        /\ rf_ret.iterations = cfg.max_self_refinement_iterations
        /\ rf_ret.original_quality = rf_hist.first_eval

\* C11 amended: a loop that ends exhausted returns the best-seen candidate,
\* its score, the original score, and as iteration count the number of the
\* round in which it ended: max_iterations when all rounds ran, and the
\* number of requests issued so far, which can be smaller, when a round got
\* no response or no valid code.
C11_ExhaustedReturnsRoundReached ==
    Exhausted =>
        /\ ReturnsBestSeen
        /\ rf_ret.original_quality = rf_hist.first_eval
        /\ rf_ret.iterations = rf_hist.requests
        /\ rf_ret.iterations \in 1..cfg.max_self_refinement_iterations
        /\ rf_hist.exit = "exhausted"
               => rf_ret.iterations = cfg.max_self_refinement_iterations

\* C11 witness: the first of several rounds got no response.
C11_Witness ==
    /\ Exhausted
    /\ rf_hist.exit = NoResponse
    /\ rf_ret.iterations = 1
    /\ cfg.max_self_refinement_iterations = MaxIterations
    /\ rf_ret.code = rf.original_code

\* The step of an invocation keeps to the state machine: a request is
\* followed by at most one evaluation, an evaluation after the first one
\* needs a request, and a finished invocation takes no further step.
RepairStep ==
    /\ rf_hist'.requests \in {rf_hist.requests, rf_hist.requests + 1}
    /\ rf_hist'.evaluations \in {rf_hist.evaluations, rf_hist.evaluations + 1}
    /\ (rpc = "loop" /\ rf_hist'.evaluations = rf_hist.evaluations + 1)
           => rf_hist'.requests = rf_hist.requests + 1
    /\ rpc = "entry" => rf_hist'.requests = 0
    /\ rpc = "loop" => /\ rf'.iteration = rf.iteration + 1
                       /\ rpc' \in {"loop", "returned"}
    /\ rpc \in {"returned", "raised"} => UNCHANGED refineVars

\* C12: an invocation of the enabled repair loop with max_iterations >= 1
\* issues at most max_iterations requests and makes at most
\* max_iterations + 1 evaluations, never faults, can always take its next
\* step while it has not returned, and returns accepted or exhausted; each
\* round raises the round counter, which stays below max_iterations while
\* the loop runs.
C12_RepairLoopBounded ==
    /\ [](/\ cfg.enable_self_refinement
          /\ cfg.enable_quality_caching
          /\ cfg.max_self_refinement_iterations >= 1
          => /\ rf_hist.requests <= cfg.max_self_refinement_iterations
             /\ rf_hist.evaluations <= cfg.max_self_refinement_iterations + 1
             /\ rf_hist.evaluations <= rf_hist.requests + 1
             /\ rpc # "raised"
             /\ rpc = "loop" =>
                    /\ rf.iteration < cfg.max_self_refinement_iterations
                    /\ rf_hist.requests = rf.iteration
                    /\ ENABLED RefineLoopStep
             /\ rpc = "entry" => ENABLED RefineEntryStep
             /\ rpc = "returned" =>
                    \/ rf_hist.exit = "accepted" /\ rf_hist.last_passed
                    \/ Exhausted /\ ~rf_hist.last_passed)
    /\ [][RepairStep]_vars

\* C12 witness: every round ran, each with its request and evaluation.
C12_Witness ==
    /\ rpc = "returned"
    /\ rf_hist.exit = "exhausted"
    /\ rf_hist.requests = MaxIterations
    /\ rf_hist.evaluations = MaxIterations + 1

(***************************************************************************)
(* Further claims about a trial, checked under Spec.                       *)
(***************************************************************************)

\* A layer is being processed: its paths or models run.
InLayer == pc \in {"path", "path_refine", "model"}

\* The candidates the cache holds of the layers up to a ceiling.
CandidatesUpTo(ceiling) ==
    UNION {Range(cache_data.layer_outputs[l]) : l \in {x \in LayerIndices : x <= ceiling}}

\* C13: with caching enabled, while layer 0 is processed its forward-feed
\* input is none; while a layer i > 0 is processed its forward-feed input
\* is top_k(n_select, max_layer = i-1) of the cache as it was when the
\* layer started, which holds no candidate of layer i or later; every
\* candidate fed forward is one of a layer <= i-1.
C13_ForwardFeedIsTopKOfEarlierLayers ==
    (cfg.enable_quality_caching /\ InLayer) =>
        /\ layer_idx = 0 => previous_codes = <<>>
        /\ layer_idx > 0 =>
               /\ previous_codes =
                      get_top_quality_codes(cache_data, cfg.n_select, layer_idx - 1)
               /\ Len(previous_codes) =
                      Min(cfg.n_select, Cardinality(CandidatesUpTo(layer_idx - 1)))
               /\ \A i \in 1..Len(previous_codes) :
                      /\ previous_codes[i].layer_idx <= layer_idx - 1
                      /\ previous_codes[i] \in CandidatesUpTo(layer_idx - 1)
        /\ \A l \in LayerIndices : l >= layer_idx => cache_data.layer_outputs[l] = <<>>

\* C13 witness: the third layer is fed a candidate of the first layer ahead
\* of one of the second.
C13_Witness ==
    /\ cfg.enable_quality_caching
    /\ InLayer
    /\ layer_idx = MaxLayers
    /\ Len(previous_codes) = MaxSelect
    /\ previous_codes[1].layer_idx = 0
    /\ \E i \in 1..Len(previous_codes) : previous_codes[i].layer_idx = layer_idx - 1

\* The trial went through every layer and entered final aggregation.
RanToAggregation ==
    /\ trial_hist.layers_started = cfg.num_layers
    /\ Len(trial_hist.layer_counts) = cfg.num_layers
    /\ trial_hist.agg_entered

\* C14 as stated: when no early stop fired and the cache is not empty,
\* final aggregation makes at most two requests, the second only after a
\* first without a valid module; the first valid output is returned, after
\* one pass of the repair loop when self-repair is enabled; after two
\* failures the trial returns the code of the first element of
\* top_k(n_select).
C14_AggregationReturnsOutputOrBestCached ==
    (cfg.enable_quality_caching /\ trial_hist.agg_entered
        /\ cache_data.total_hdl_codes > 0) =>
        /\ trial_hist.agg_requests <= 2
        /\ trial_hist.agg_requests = 2 => ~trial_hist.agg_valid[1]
        /\ pc # "raised"
        /\ (pc = "done" /\ trial_hist.agg_requests > 0) =>
               \/ /\ outcome = "Success"
                  /\ trial_hist.agg_valid[trial_hist.agg_requests]
                  /\ cfg.enable_self_refinement =>
                         /\ rpc = "returned"
                         /\ result = rf_ret.code
                         /\ rf_hist.evaluations >= 1
               \/ /\ outcome = "Fallback"
                  /\ trial_hist.agg_valid = <<FALSE, FALSE>>
                  /\ result = get_top_quality_codes(
                                  cache_data, cfg.n_select, NoLayer)[1].code

\* C15 as stated: with caching enabled, a trial that did not stop early
\* reports Failure exactly when no candidate was recorded in any layer, and
\* a trial whose cache holds a candidate when the layers finish returns a
\* code.
C15_FailureOnlyWithEmptyCache ==
    (cfg.enable_quality_caching /\ outcome # "EarlyStop") =>
        /\ pc = "done" =>
               /\ (outcome = "Failure") <=> (cache_data.total_hdl_codes = 0)
               /\ cache_data.total_hdl_codes > 0 => result \in Codes
        /\ (trial_hist.agg_entered /\ cache_data.total_hdl_codes > 0)
               => pc # "raised"

\* C16 as stated: a trial that ended otherwise than by an early stop went
\* through every layer and entered final aggregation, whatever number of
\* candidates each layer yielded.
C16_EveryLayerAndAggregationRan ==
    (pc = "done" /\ outcome # "EarlyStop" /\ cfg.num_layers > 0)
        => RanToAggregation

\* The trial returned None at the top of a layer after the first, which
\* found no input.
EndedForLackOfInput ==
    /\ outcome = "Failure"
    /\ result = NoValue
    /\ ~trial_hist.agg_entered
    /\ trial_hist.agg_requests = 0
    /\ trial_hist.layers_started = layer_idx
    /\ Len(trial_hist.layer_counts) = layer_idx
    /\ layer_idx \in 1..(cfg.num_layers - 1)

\* C16 amended: generate_trial of MoA_HLS.py goes through every layer and
\* enters final aggregation whatever the layers yielded. generate_moa_trial
\* of MoA_verify.py does so too, except that a layer after the first that
\* finds no input ends the trial with Failure: in quality mode that is when
\* no layer before it recorded a candidate, so a layer that yields nothing
\* after a layer that yielded a candidate is not fatal; in standard mode it
\* is when the layer just before it yielded nothing.
C16_LayersRunWhileInputIsAvailable ==
    (pc = "done" /\ outcome # "EarlyStop" /\ cfg.num_layers > 0) =>
        \/ RanToAggregation
        \/ /\ IsEnhanced(cfg)
           /\ EndedForLackOfInput
           /\ IF cfg.enable_quality_caching
              THEN /\ cache_data.total_hdl_codes = 0
                   /\ \A i \in 1..Len(trial_hist.layer_counts) :
                          trial_hist.layer_counts[i] = 0
              ELSE trial_hist.layer_counts[layer_idx] = 0

\* C16 witness: a trial of MoA_HLS.py whose first layer yielded nothing and
\* whose second layer yielded a candidate ran to final aggregation.
C16_Witness ==
    /\ ~IsEnhanced(cfg)
    /\ pc = "done"
    /\ RanToAggregation
    /\ Len(trial_hist.layer_counts) >= 2
    /\ trial_hist.layer_counts[1] = 0
    /\ trial_hist.layer_counts[2] > 0
    /\ outcome \in {"Success", "Fallback"}

\* C17 as stated: neither the repair loop nor a trial ever raises a fault.
C17_NoFaultRaised ==
    /\ rpc # "raised"
    /\ pc # "raised"

(***************************************************************************)
(* Claims about the record operations, checked under SpecStore.            *)
(***************************************************************************)

\* The entry stored for a candidate: its code and score, and the layer.
StoredAs(entry, hdl_output, layer) ==
    /\ entry.code = hdl_output.code
    /\ entry.quality_score = hdl_output.quality_score
    /\ entry.layer_idx = layer

\* A record call for a layer: the candidates of the call, in their order,
\* are the new end of the list of the layer, the other lists stay, and
\* total_layers becomes the larger of its value and layer + 1.
RecordStep ==
    \E layer \in LayerIndices :
        LET old == cache_data.layer_outputs[layer]
            new == cache_data'.layer_outputs[layer]
            given == SubSeq(input_log'[layer], Len(input_log[layer]) + 1,
                            Len(input_log'[layer]))
        IN /\ given # <<>>
           /\ Len(new) = Len(old) + Len(given)
           /\ SubSeq(new, 1, Len(old)) = old
           /\ \A i \in 1..Len(given) : StoredAs(new[Len(old) + i], given[i], layer)
           /\ \A l \in LayerIndices \ {layer} :
                  cache_data'.layer_outputs[l] = cache_data.layer_outputs[l]
           /\ cache_data'.total_layers = Max(cache_data.total_layers, layer + 1)
           /\ cache_data'.total_layers >= cache_data.total_layers

\* C18: every record call appends exactly the candidates it is given, in
\* their order, to the end of the list of its layer, without dropping or
\* merging equal ones, and sets total_layers to
\* max(previous total_layers, layer + 1); so each list holds one entry per
\* candidate ever given for the layer, in the order given, and total_layers
\* never decreases.
C18_RecordAppendsInOrder ==
    /\ [](\A l \in LayerIndices :
              /\ Len(cache_data.layer_outputs[l]) = Len(input_log[l])
              /\ \A i \in 1..Len(input_log[l]) :
                     StoredAs(cache_data.layer_outputs[l][i], input_log[l][i], l)
              /\ cache_data.layer_outputs[l] # <<>> => cache_data.total_layers >= l + 1)
    /\ [][RecordStep]_vars

\* C18 witness: the same candidate recorded twice in layer 0 gave two
\* entries, the second of them recorded after a record for layer 1, which
\* left total_layers at 2.
C18_Witness ==
    /\ Len(cache_data.layer_outputs[0]) = 2
    /\ Len(cache_data.layer_outputs[1]) = 1
    /\ input_log[0][1] = input_log[0][2]
    /\ cache_data.layer_outputs[0][1].code = cache_data.layer_outputs[0][2].code
    /\ cache_data.layer_outputs[1][1].cached_at
           < cache_data.layer_outputs[0][2].cached_at
    /\ cache_data.total_layers = 2

(***************************************************************************)
(* Claims about the cache during a batch of trials, checked under Spec.    *)
(***************************************************************************)

IsPrefix(a, b) == Len(a) <= Len(b) /\ SubSeq(b, 1, Len(a)) = a

\* A step within a trial leaves every stored candidate and every auxiliary
\* entry where and as it was, and only the record at the end of a layer
\* changes the cache at all.
AppendOnlyStep ==
    pc # "start" =>
        /\ \A l \in LayerIndices :
               IsPrefix(cache_data.layer_outputs[l], cache_data'.layer_outputs[l])
        /\ \A g \in Languages :
               IsPrefix(cache_data.intermediate_codes[g],
                        cache_data'.intermediate_codes[g])
        /\ cache_data' # cache_data =>
               /\ pc \in {"path", "model"}
               /\ pc' \in {"layer", "moa_layer", "done"}
               /\ current_layer_outputs # <<>>
               /\ cache_data'.total_hdl_codes
                      = cache_data.total_hdl_codes + Len(current_layer_outputs)

\* C19: within a trial the cache is append-only: every step leaves each
\* stored candidate and auxiliary entry at its position, unchanged; the
\* retrievals (forward-feed, references, final input) and the steps of the
\* repair loop leave the cache as it is, and only the record at the end of
\* a layer adds to it.
C19_CacheAppendOnlyWithinTrial == [][AppendOnlyStep]_vars

\* C19 witness: a trial that recorded two layers, one with an auxiliary
\* artifact, retrieved the final input and ran the repair loop on the
\* aggregated code.
C19_Witness ==
    /\ pc = "done"
    /\ outcome = "Success"
    /\ cfg.enable_self_refinement
    /\ rf_hist.requests >= 1
    /\ cache_data.layer_outputs[0] # <<>>
    /\ cache_data.layer_outputs[1] # <<>>
    /\ cache_data.intermediate_codes["cpp"] # <<>>
    /\ final_input # <<>>

\* The cache of the running trial has been constructed.
CacheOfTrial ==
    /\ cfg.enable_quality_caching
    /\ pc \notin {"start", "direct"}

\* Every candidate and auxiliary entry in the cache was recorded by the
\* running trial: input_log holds what this trial handed to the cache.
RecordedInThisTrial ==
    /\ \A l \in LayerIndices :
           /\ Len(cache_data.layer_outputs[l]) = Len(input_log[l])
           /\ \A i \in 1..Len(input_log[l]) :
                  StoredAs(cache_data.layer_outputs[l][i], input_log[l][i], l)
    /\ \A g \in Languages :
           \A e \in Range(cache_data.intermediate_codes[g]) :
               /\ e.hdl_reference_idx + 1 <= Len(input_log[e.layer_idx])
               /\ OwnerInput(e).intermediate = [language |-> g, code |-> e.code]

\* C20: the cache of a trial is constructed new and empty for that trial,
\* so all it ever holds was recorded by that trial, and the forward-feed
\* input, the references and the final input of the trial are taken from
\* it: nothing recorded in an earlier trial of the batch is used.
C20_EveryTrialStartsWithNewCache ==
    CacheOfTrial =>
        /\ cache_data.trial_num = trial_num
        /\ RecordedInThisTrial
        /\ trial_hist.layer_counts = <<>> => cache_data.total_hdl_codes = 0
        /\ \A i \in 1..Len(previous_codes) :
               previous_codes[i] \in CandidatesUpTo(layer_idx - 1)
        /\ \A g \in Languages :
               reference[g] # NoValue =>
                   \E e \in Range(cache_data.intermediate_codes[g]) :
                       e.code = reference[g]
        /\ \A i \in 1..Len(final_input) :
               final_input[i] \in CandidatesUpTo(MaxLayers)

\* C20 witness: the second layer of a later trial, fed and given a
\* reference from the cache, after an earlier trial recorded candidates.
C20_Witness ==
    /\ CacheOfTrial
    /\ trial_num = MaxTrials
    /\ trial_hist.earlier_recorded
    /\ InLayer
    /\ layer_idx = 1
    /\ previous_codes # <<>>
    /\ reference["cpp"] # NoValue


(***************************************************************************)
(* Claims about a failing write of the cache, checked under SpecSave.      *)
(***************************************************************************)

\* The candidates a step handed to the cache for a layer.
GivenInStep(layer) ==
    SubSeq(input_log'[layer], Len(input_log[layer]) + 1, Len(input_log'[layer]))

\* The structure the record call of a step leaves when its write succeeds.
AsIfWritten(layer) ==
    IF "model" \in DOMAIN GivenInStep(layer)[1]
    THEN add_layer_outputs(cache_data, layer, GivenInStep(layer), clock)
    ELSE add_layer_outputs_with_intermediate(cache_data, layer, GivenInStep(layer), clock)

\* A record call whose write failed: the persisted document is not the
\* current one. The call completed, the candidates are in the structure,
\* and the structure and every retrieval from it are those of the same call
\* with a successful write.
FailedSaveStep ==
    \A layer \in LayerIndices :
        (GivenInStep(layer) # <<>> /\ cache_file' # "current") =>
            LET written == AsIfWritten(layer)
            IN /\ Len(cache_data'.layer_outputs[layer])
                      = Len(cache_data.layer_outputs[layer]) + Len(GivenInStep(layer))
               /\ cache_data' = written
               /\ has_cached_data(cache_data')
               /\ get_top_quality_codes(cache_data', MaxEntries, NoLayer)
                      = get_top_quality_codes(written, MaxEntries, NoLayer)
               /\ \A g \in Languages :
                      get_best_intermediate_code(cache_data', g, NoLayer)
                          = get_best_intermediate_code(written, g, NoLayer)

\* C21: a write of the cache that fails during a record call is swallowed:
\* the call completes, the in-memory structure holds the appended
\* candidates, and it is the structure a successful write leaves, so top_k,
\* best_auxiliary and has_data answer from it as after a successful write.
C21_FailedSaveLeavesCacheAuthoritative == [][FailedSaveStep]_vars

\* C21 witness: two layers were recorded, the last write failed after an
\* earlier one had succeeded, and the retrievals answer from memory.
C21_Witness ==
    /\ cache_file = "stale"
    /\ Len(cache_data.layer_keys) = 2
    /\ has_cached_data(cache_data)
    /\ Len(get_top_quality_codes(cache_data, MaxEntries, NoLayer)) = 2


(***************************************************************************)
(* Claims about the candidates of a trial, checked under Spec.             *)
(***************************************************************************)

\* The pre-repair score of the i-th candidate recorded for a layer is kept
\* in the cache: in the candidate's entry, or in the auxiliary entry that
\* refers to it.
CarriesOriginalQuality(layer, i) ==
    LET entry == cache_data.layer_outputs[layer][i]
        given == input_log[layer][i]
    IN \/ /\ "original_quality" \in DOMAIN entry
          /\ entry.original_quality = given.original_quality
       \/ \E g \in Languages :
              \E j \in 1..Len(cache_data.intermediate_codes[g]) :
                  LET x == cache_data.intermediate_codes[g][j]
                  IN /\ x.layer_idx = layer
                     /\ x.hdl_reference_idx = i - 1
                     /\ x.hdl_quality = given.original_quality

\* C22: every candidate stored in the cache of a trial of the multi-path
\* generator carries the pre-repair score the repair loop returned for it,
\* next to its final quality_score, whether it came from the direct path or
\* has an auxiliary artifact.
C22_StoredCandidateCarriesOriginalQuality ==
    ~IsEnhanced(cfg) =>
        \A layer \in LayerIndices :
            \A i \in 1..Len(cache_data.layer_outputs[layer]) :
                /\ cache_data.layer_outputs[layer][i].quality_score
                       = input_log[layer][i].quality_score
                /\ CarriesOriginalQuality(layer, i)


(***************************************************************************)
(* Claims about the repair requests, checked under SpecRefine.             *)
(***************************************************************************)

ErrorTypes == {"syntax_error", "compilation_error", "simulation_fail"}

\* The repair requests of the invocation so far.
Asked == rf_hist.asked

\* The error type of every request is the one of the evaluation of the
\* code the request carries, which is the latest evaluation.
TagOfCodeRepaired ==
    \A i \in 1..Len(Asked) :
        /\ Asked[i].iteration = i
        /\ Asked[i].verdict_of = Asked[i].code
        /\ Asked[i].error_type = Asked[i].verdict_type
        /\ Asked[i].error_type \in ErrorTypes

\* C23 as stated: the guidance of a repair request is a function of the
\* error type alone, so two requests with the same error type carry the
\* same guidance; requests for a syntax error and for a simulation failure
\* carry different guidance; the error type of the request of iteration i
\* is the one of the evaluation of the code repaired at iteration i.
C23_GuidanceIsFunctionOfErrorType ==
    /\ TagOfCodeRepaired
    /\ \A i, j \in 1..Len(Asked) :
           /\ Asked[i].error_type = Asked[j].error_type
                  => Asked[i].guidance = Asked[j].guidance
           /\ (Asked[i].error_type = "syntax_error"
                  /\ Asked[j].error_type = "simulation_fail")
                  => Asked[i].guidance # Asked[j].guidance

\* C23, amended: the guidance of a repair request is a function of the
\* error type and the message of the evaluation of the code being repaired
\* and of whether the candidate has auxiliary code: a syntax error and a
\* simulation failure each select one text, a compilation error selects
\* one of two by whether the message names an unknown module type, the
\* four texts differ, and the notes on translated code are added exactly
\* for a candidate with auxiliary code.
C23_GuidanceFollowsErrorTypeAndMessage ==
    /\ TagOfCodeRepaired
    /\ \A i \in 1..Len(Asked) :
           /\ Asked[i].verdict_type = "syntax_error"
                  => Asked[i].guidance.text = "SYNTAX ERROR DETECTED"
           /\ Asked[i].verdict_type = "simulation_fail"
                  => Asked[i].guidance.text = "SIMULATION FAILURE"
           /\ (Asked[i].verdict_type = "compilation_error"
                  /\ Asked[i].verdict_message = UnknownModule)
                  => Asked[i].guidance.text = "MISSING/UNKNOWN MODULE ERROR"
           /\ (Asked[i].verdict_type = "compilation_error"
                  /\ Asked[i].verdict_message # UnknownModule)
                  => Asked[i].guidance.text = "COMPILATION ERROR"
           /\ Asked[i].guidance.translation_issues = (rf.intermediate_code # NoValue)
    /\ \A i, j \in 1..Len(Asked) :
           (Asked[i].verdict_type # Asked[j].verdict_type)
               => Asked[i].guidance # Asked[j].guidance

\* C23 witness: the original code failed the syntax check and the code of
\* the first repair failed simulation, so the two requests of the
\* invocation carry different codes, error types and guidance.
C23_Witness ==
    /\ Len(Asked) = 2
    /\ Asked[1].error_type = "syntax_error"
    /\ Asked[2].error_type = "simulation_fail"
    /\ Asked[1].code # Asked[2].code
    /\ Asked[1].guidance # Asked[2].guidance


\* An invocation of the enabled repair loop that is over, in which the
\* original code failed and every repair request came back as valid code
\* that failed with a score not above the original one.
RepairsNeverBetter ==
    /\ cfg.enable_self_refinement
    /\ cfg.enable_quality_caching
    /\ rpc \in {"returned", "raised"}
    /\ rf_hist.first_eval # NoScore
    /\ rf_hist.exit \in {"exhausted", "raised"}
    /\ \A j \in 2..Len(rf_hist.seen) :
           rf_hist.seen[j].quality <= rf_hist.seen[1].quality

\* C24: when the original code fails and every repair attempt returns
\* valid code that fails with a score not above the original score, the
\* loop runs max_iterations rounds and returns the original code, with
\* quality_score equal to original_quality and the iteration count equal
\* to max_iterations.
C24_NoImprovementReturnsOriginal ==
    RepairsNeverBetter =>
        /\ rpc = "returned"
        /\ rf_hist.requests = cfg.max_self_refinement_iterations
        /\ rf_ret.code = rf.original_code
        /\ rf_ret.quality = rf_ret.original_quality
        /\ rf_ret.original_quality = rf_hist.first_eval
        /\ rf_ret.iterations = cfg.max_self_refinement_iterations


(***************************************************************************)
(* Claims about whole trials of the multi-path generator, checked under    *)
(* Spec.                                                                   *)
(***************************************************************************)

\* A trial of one layer with the direct path only, with quality caching,
\* in which so far every generation request came back as the module x and
\* every evaluation of it passed.
AlwaysSamePassingModule(x) ==
    /\ ~IsEnhanced(cfg)
    /\ cfg.enable_quality_caching
    /\ cfg.num_layers = 1
    /\ cfg.path_config = <<"direct">>
    /\ pc \notin {"idle", "start"}
    /\ \A i \in 1..Len(current_layer_outputs) :
           /\ current_layer_outputs[i].code = x
           /\ current_layer_outputs[i].first_score = 100
    /\ (pc = "path" /\ path_idx > 1) => Len(current_layer_outputs) = 1
    /\ trial_hist.layer_counts \in {<<>>, <<1>>}
    /\ \A i \in 1..Len(trial_hist.agg_codes) : trial_hist.agg_codes[i] = x
    /\ rf.original_code \in {NoValue, x}
    /\ rf_hist.first_eval \in {NoScore, 100}

\* C25: in a trial with one layer and the single path "direct" in which
\* generation always returns the same module, valid and passing, no repair
\* request is ever issued, the trial ends without a fault and returns that
\* module, and at the end the cache holds exactly one candidate, that
\* module with score 1.0, with early stopping enabled or not.
C25_SinglePassingModuleIsReturned ==
    \A x \in Codes :
        AlwaysSamePassingModule(x) =>
            /\ rf_hist.requests = 0
            /\ pc # "raised"
            /\ cache_data.total_hdl_codes <= 1
            /\ pc = "done" =>
                   /\ result = x
                   /\ cache_data.total_hdl_codes = 1
                   /\ cache_data.layer_outputs[0][1].code = x
                   /\ cache_data.layer_outputs[0][1].quality_score = 100


(***************************************************************************)
(* Claims about the calls of the evaluator, checked under SpecCalls.       *)
(***************************************************************************)

\* Two calls with the same code to which the verifier answered the same.
SameEvaluation(a, b) ==
    /\ a.code = b.code
    /\ a.syn = b.syn
    /\ a.fn = b.fn

Has(steps, step) == \E i \in 1..Len(steps) : steps[i] = step

\* The steps of a call, finished or in progress, keep to the cascade.
Cascade(call) ==
    /\ Has(call.steps, "syntax") => call.steps[1] = "syntax"
    /\ Has(call.steps, "function")
           => /\ Len(call.steps) >= 2
              /\ call.steps[1] = "syntax"
              /\ call.steps[2] = "function"
              /\ test_syntax(call.syn) > 0
    /\ Has(call.steps, "fallback")
           => /\ call.steps = <<"syntax", "fallback">>
              /\ test_syntax(call.syn) = 0
    /\ Has(call.steps, "severity")
           => /\ call.steps = <<"syntax", "function", "severity">>
              /\ test_syntax(call.syn) > 0
              /\ test_function(call.fn) = 0

\* C29: blank code yields 0.0 with no run of the verifier; the functional
\* test runs only after the syntax check passed; when the syntax check
\* fails the result is the fallback score and neither the functional test
\* nor the severity-weighted analysis runs; the severity-weighted analysis
\* runs exactly when the syntax check passed and the functional test
\* failed.
C29_StagesRunAsCascade ==
    /\ Cascade(ecall)
    /\ \A i \in 1..Len(ecalls) :
           LET call == ecalls[i]
           IN /\ Cascade(call)
              /\ call.code = BlankCode
                     => call.steps = <<>> /\ call.score = 0
              /\ (call.code # BlankCode /\ test_syntax(call.syn) = 0)
                     => /\ call.steps = <<"syntax", "fallback">>
                        /\ call.fn = NoValue
                        /\ call.score = fallback_evaluation(Text(call.code).fallback)
              /\ (call.code # BlankCode /\ test_syntax(call.syn) > 0)
                     => /\ Has(call.steps, "function")
                        /\ Has(call.steps, "severity") <=> test_function(call.fn) = 0
                        /\ test_function(call.fn) > 0 => call.score = 100

\* C29 witness: a blank code, a code that failed the syntax check and a
\* code that failed the functional test were evaluated.
C29_Witness ==
    /\ Len(ecalls) = 3
    /\ ecalls[1].code = BlankCode
    /\ ecalls[2].steps = <<"syntax", "fallback">>
    /\ ecalls[3].steps = <<"syntax", "function", "severity">>
    /\ ecalls[3].fn = "compile_fail"


\* The typed results of a trial.
TrialOutcomes == {"EarlyStop", "Success", "Fallback", "Failure"}

\* A step within a trial of generate_trial keeps the order of the layers:
\* the layer that starts has the index that equals the number of layers
\* started and finished before it, the layers before it are recorded when
\* its forward-feed input is computed, and final aggregation is entered
\* only with all layers finished and no early stop.
LayerOrderStep ==
    (~IsEnhanced(cfg) /\ pc \notin {"idle", "start", "done", "raised"}) =>
        /\ layer_idx' \in {layer_idx, layer_idx + 1}
        /\ trial_hist'.layers_started
               \in {trial_hist.layers_started, trial_hist.layers_started + 1}
        /\ trial_hist'.layers_started = trial_hist.layers_started + 1
               => /\ layer_idx' = trial_hist.layers_started
                  /\ layer_idx' < cfg.num_layers
                  /\ Len(trial_hist.layer_counts) = layer_idx'
                  /\ cfg.enable_quality_caching
                         => /\ \A l \in 0..(layer_idx' - 1) :
                                   Len(cache_data.layer_outputs[l])
                                       = trial_hist.layer_counts[l + 1]
                            /\ previous_codes' =
                                   IF layer_idx' = 0 THEN <<>>
                                   ELSE get_top_quality_codes(
                                            cache_data, cfg.n_select, layer_idx' - 1)
        /\ (trial_hist'.agg_entered /\ ~trial_hist.agg_entered)
               => /\ trial_hist.layers_started = cfg.num_layers
                  /\ Len(trial_hist.layer_counts) = cfg.num_layers
                  /\ outcome = NoValue
        /\ outcome' = "EarlyStop"
               => /\ ~trial_hist'.agg_entered
                  /\ Len(trial_hist'.layer_counts) = layer_idx + 1

\* C27: generate_trial processes the layers in index order 0, 1, ..., L-1,
\* each at most once, records the candidates of layer i before layer i+1
\* computes its forward-feed input, enters final aggregation only after
\* layer L-1 finished without an early stop, and ends in exactly one of
\* EarlyStop, Success, Fallback and Failure.
C27_TrialIsLayerSequenceThenAggregation ==
    /\ [](~IsEnhanced(cfg) =>
              /\ trial_hist.layers_started <= cfg.num_layers
              /\ pc \in {"done", "raised"} => outcome \in TrialOutcomes
              /\ pc \notin {"done", "raised"} => outcome = NoValue)
    /\ [][LayerOrderStep]_vars


\* The paths of the layer in progress that have run.
PathsRun == path_idx - 1

\* While a layer is in progress the trial does not end by an early stop,
\* whatever the scores of the candidates the layer has yielded so far, and
\* the next path is generated.
NoEarlyStopWithinLayer ==
    (~IsEnhanced(cfg) /\ pc \in {"path", "path_refine"}
        /\ PathsRun < Len(cfg.path_config))
        => /\ outcome' # "EarlyStop"
           /\ pc' # "done"
           /\ pc = "path" => ENABLED GeneratePath
           /\ (pc = "path_refine" /\ rpc \in {"entry", "loop"})
                  => ENABLED (TrialRefineEntry \/ TrialRefineLoop)

\* C28: the early-stop check runs only at the end of a layer: when a path
\* of a layer has yielded a candidate with score 1.0, the remaining paths
\* of the layer still run, each with its repair loop, and when the trial
\* ends by an early stop every path of the layer has run and every
\* candidate the layer yielded is in the cache.
C28_EarlyStopOnlyAtLayerBoundary ==
    /\ [](~IsEnhanced(cfg) /\ outcome = "EarlyStop" =>
              /\ cfg.enable_early_stopping
              /\ PathsRun = Len(cfg.path_config)
              /\ rpc = "idle"
              /\ Len(cache_data.layer_outputs[layer_idx]) = Len(current_layer_outputs)
              /\ \A i \in 1..Len(current_layer_outputs) :
                     StoredAs(cache_data.layer_outputs[layer_idx][i],
                              current_layer_outputs[i], layer_idx)
              /\ trial_hist.layer_counts[layer_idx + 1] = Len(current_layer_outputs)
              /\ result = PerfectCode(current_layer_outputs))
    /\ [][NoEarlyStopWithinLayer]_vars

\* C28 witness: the first path of the layer yielded a candidate with score
\* 1.0, the second path ran after it and its repair loop lifted a failing
\* code, and both candidates were recorded before the early stop.
C28_Witness ==
    /\ outcome = "EarlyStop"
    /\ Len(current_layer_outputs) = 2
    /\ current_layer_outputs[1].quality_score = 100
    /\ current_layer_outputs[2].first_score < 100
    /\ current_layer_outputs[2].quality_score > current_layer_outputs[2].first_score
    /\ Len(cache_data.layer_outputs[layer_idx]) = 2
    /\ result = current_layer_outputs[1].code


(***************************************************************************)
(* Claims about the severity-weighted score, checked under SpecEval.       *)
(***************************************************************************)

\* Each analysis adds its own penalty to total_penalty, capped by itself:
\* at most 0.40 for logic, 0.20 for synthesis and 0.06 for style.
PenaltyStep ==
    /\ epc = "logic" => (etotal = 0 /\ etotal' - etotal \in 0..40)
    /\ epc = "synthesis" => etotal' - etotal \in 0..20
    /\ epc = "style" => etotal' - etotal \in 0..6

Reward(fact, r) == IF fact THEN r ELSE 0

\* The reward for control keywords: 0.05 per distinct keyword, at most 0.15.
KeywordReward(n) == IF n >= 3 THEN 15 ELSE 5 * n

\* The sum of the rewards a text earned.
RewardsEarned(f) ==
    Reward(f.module_pair, 20) + Reward(f.io_decl, 15) + KeywordReward(f.logic_count)
    + Reward(f.name_ok, 10) + Reward(f.lines_ok, 5) + Reward(f.balanced, 5)

\* C31: the fallback heuristic returns min(0.6, sum of the rewards earned),
\* the rewards being 0.2 (module/endmodule pair), 0.15 (input/output),
\* min(0.15, 0.05 per distinct control keyword), 0.1 (module name), 0.05
\* (line count) and 0.05 (balanced brackets); a text earning every reward
\* scores 0.6, not 0.7.
C31_FallbackIsCappedSumOfRewards ==
    efeat # NoFeatures =>
        /\ escore = (IF RewardsEarned(efeat) > 60 THEN 60 ELSE RewardsEarned(efeat))
        /\ escore \in 0..60
        /\ (/\ efeat.module_pair /\ efeat.io_decl /\ efeat.logic_count >= 3
            /\ efeat.name_ok /\ efeat.lines_ok /\ efeat.balanced)
           => (RewardsEarned(efeat) = 70 /\ escore = 60)

\* C31 witness: a text with all six keywords and every other reward scored
\* 0.6, right after a text with two keywords and nothing else scored 0.1.
C31_Witness ==
    /\ efeat # NoFeatures
    /\ efeat.module_pair /\ efeat.io_decl /\ efeat.logic_count = 6
    /\ efeat.name_ok /\ efeat.lines_ok /\ efeat.balanced
    /\ escore = 60
    /\ eprev.stage = "syntax_fail"
    /\ eprev.score = 10


(***************************************************************************)
(* Claims about verifier timeouts and faults, checked under SpecCalls.     *)
(***************************************************************************)

\* The answers that stand for a raise inside _test_syntax or _test_function.
Raised == {"timeout", "fault"}

\* C32: a verifier timeout or fault is a failing verdict of its stage and
\* never a crash: a timeout of the syntax check makes evaluate_quality
\* return the fallback score (at most 0.6); a timeout, fault or missing
\* testbench in the functional run makes it return the severity-weighted
\* score (in [0.45, 0.85]); in neither case is 1.0 returned.
C32_TimeoutOrFaultIsFailingVerdict ==
    /\ epc \in {"idle", "syntax", "function", "severity"}
    /\ (epc = "function" /\ ecall.syn \in Raised) => FALSE
    /\ \A i \in 1..Len(ecalls) :
           LET call == ecalls[i]
           IN /\ call.syn \in Raised =>
                     /\ call.steps = <<"syntax", "fallback">>
                     /\ call.score = fallback_evaluation(Text(call.code).fallback)
                     /\ call.score \in 0..60
              /\ call.fn \in Raised \cup {"no_testbench"} =>
                     /\ call.steps = <<"syntax", "function", "severity">>
                     /\ call.score = severity_weighted_evaluation(Text(call.code))
                     /\ call.score \in 45..85

\* C32 witness: the three latest calls ended by a syntax timeout, by a
\* timeout of the functional run and by a missing testbench.
C32_Witness ==
    /\ epc = "idle"
    /\ Len(ecalls) = 3
    /\ ecalls[1].syn = "timeout" /\ ecalls[1].score <= 60
    /\ ecalls[2].fn = "timeout" /\ ecalls[2].score \in 45..85
    /\ ecalls[3].fn = "no_testbench" /\ ecalls[3].score \in 45..85


(***************************************************************************)
(* Claims about the best-seen candidate of the repair loop, checked under  *)
(* SpecRefine.                                                             *)
(***************************************************************************)

\* The evaluations of the invocation so far, in order: the entry one first.
Seen == rf_hist.seen

\* The highest score among the evaluations so far.
BestScoreSeen == CHOOSE q \in {Seen[i].quality : i \in 1..Len(Seen)} :
                     \A j \in 1..Len(Seen) : Seen[j].quality <= q

\* The first evaluation that gave the highest score.
EarliestBest == CHOOSE i \in 1..Len(Seen) :
                    /\ Seen[i].quality = BestScoreSeen
                    /\ \A j \in 1..(i - 1) : Seen[j].quality < BestScoreSeen

\* A round replaces the best-seen candidate only by the candidate it
\* re-evaluated, and only when that one scored strictly higher.
BestSeenStep ==
    (rpc = "loop" /\ (rf'.best_code # rf.best_code \/ rf'.best_quality # rf.best_quality))
        => /\ rf_hist'.evaluations = rf_hist.evaluations + 1
           /\ rf_hist'.last_quality > rf.best_quality
           /\ rf'.best_quality = rf_hist'.last_quality
           /\ rf'.best_code = rf_hist'.last_code

\* C33: during an invocation the best-seen candidate is replaced only by a
\* re-evaluated candidate with a strictly higher score; on every Exhausted
\* exit the returned score is the maximum over the entry score and all
\* completed re-evaluations, so it is at least original_quality, the
\* returned code is the earliest candidate that attained the maximum, and
\* the returned score is the one measured for the returned code.
C33_BestSeenIsEarliestMaximum ==
    /\ []((rpc = "loop" /\ cfg.enable_self_refinement /\ cfg.enable_quality_caching) =>
              /\ rf.best_quality = BestScoreSeen
              /\ rf.best_code = Seen[EarliestBest].code)
    /\ [](Exhausted =>
              /\ Seen # <<>>
              /\ Seen[1].quality = rf_ret.original_quality
              /\ rf_ret.quality = BestScoreSeen
              /\ rf_ret.quality >= rf_ret.original_quality
              /\ rf_ret.code = Seen[EarliestBest].code
              /\ rf_ret.quality = Seen[EarliestBest].quality)
    /\ [][BestSeenStep]_vars

\* C33 witness: the first repair raised the score, the second repair gave
\* another code with the same score, and the loop returned the first.
C33_Witness ==
    /\ Exhausted
    /\ rf_hist.exit = "exhausted"
    /\ Len(Seen) = 3
    /\ Seen[2].quality > Seen[1].quality
    /\ Seen[3].quality = Seen[2].quality
    /\ Seen[3].code # Seen[2].code
    /\ rf_ret.code = Seen[2].code
    /\ rf_ret.quality > rf_ret.original_quality


\* C34: when a repair iteration yields a valid candidate that does not
\* pass, the next iteration's repair request is built from that latest
\* candidate and its diagnostics (error class and message), not from the
\* best-seen candidate, even when the latest candidate scored lower than
\* the best-seen one.
C34_NextRequestFromLatestCandidate ==
    \A k \in 1..Len(Asked) :
        /\ k <= Len(Seen)
        /\ Asked[k].iteration = k
        /\ Asked[k].code = Seen[k].code
        /\ Asked[k].code = Asked[k].verdict_of
        /\ Asked[k].error_type = Asked[k].verdict_type
        /\ Asked[k].error_message = Asked[k].verdict_message
        /\ Asked[k].error_type \in {"syntax_error", "compilation_error", "simulation_fail"}

\* C34 witness: the first repair gave another code that scored lower than
\* the original one, and the second request was built from it.
C34_Witness ==
    /\ Len(Asked) = 2
    /\ Seen[2].quality < Seen[1].quality
    /\ Seen[2].code # Seen[1].code
    /\ Asked[2].code = Seen[2].code
    /\ Asked[2].error_type # Asked[1].error_type
    /\ rf.best_code = Seen[1].code


(***************************************************************************)
(* Claims about the auxiliary index of the cache, checked under SpecStore. *)
(***************************************************************************)

\* The candidate given to the cache as the k-th of a layer carries an
\* auxiliary artifact.
CarriesArtifact(layer, k) ==
    /\ "intermediate" \in DOMAIN input_log[layer][k]
    /\ input_log[layer][k].intermediate # NoIntermediate

\* The positions of the auxiliary entries, of any language, that refer to
\* the k-th candidate of a layer.
EntriesOf(layer, k) ==
    {<<g, i>> \in Languages \X (1..MaxEntries + 1) :
         /\ i <= Len(cache_data.intermediate_codes[g])
         /\ cache_data.intermediate_codes[g][i].layer_idx = layer
         /\ cache_data.intermediate_codes[g][i].hdl_reference_idx = k - 1}

\* C35: after any sequence of record operations the auxiliary index holds
\* exactly one entry per stored candidate that carries an auxiliary
\* artifact and none for a candidate without one; each entry's language,
\* layer and reference index identify the position of its owning candidate
\* in the list of that layer, and that candidate is flagged as having an
\* auxiliary artifact of the same language.
C35_OneAuxiliaryEntryPerChainedCandidate ==
    /\ \A l \in LayerIndices :
           \A k \in 1..Len(cache_data.layer_outputs[l]) :
               IF CarriesArtifact(l, k)
               THEN /\ Cardinality(EntriesOf(l, k)) = 1
                    /\ \A p \in EntriesOf(l, k) :
                           /\ p[1] = input_log[l][k].intermediate.language
                           /\ cache_data.intermediate_codes[p[1]][p[2]].code
                                  = input_log[l][k].intermediate.code
               ELSE EntriesOf(l, k) = {}
    /\ \A g \in Languages :
           \A i \in 1..Len(cache_data.intermediate_codes[g]) :
               LET e == cache_data.intermediate_codes[g][i]
               IN /\ e.language = g
                  /\ e.layer_idx \in LayerIndices
                  /\ e.hdl_reference_idx + 1 \in 1..Len(cache_data.layer_outputs[e.layer_idx])
                  /\ LET owner == cache_data.layer_outputs[e.layer_idx][e.hdl_reference_idx + 1]
                     IN /\ "has_intermediate" \in DOMAIN owner
                        /\ owner.has_intermediate
                        /\ owner.intermediate_language = g
                        /\ owner.code = input_log[e.layer_idx][e.hdl_reference_idx + 1].code
    /\ \A l \in LayerIndices :
           \A k \in 1..Len(cache_data.layer_outputs[l]) :
               LET entry == cache_data.layer_outputs[l][k]
               IN ("has_intermediate" \in DOMAIN entry /\ entry.has_intermediate)
                      <=> CarriesArtifact(l, k)

\* C35 witness: a layer holds, in this order, a candidate recorded by
\* add_layer_outputs, a candidate with a cpp artifact and a candidate with
\* none, so the only auxiliary entry refers to index 1.
C35_Witness ==
    /\ Len(cache_data.layer_outputs[1]) = 3
    /\ "model" \in DOMAIN cache_data.layer_outputs[1][1]
    /\ CarriesArtifact(1, 2)
    /\ "path" \in DOMAIN cache_data.layer_outputs[1][3]
    /\ ~CarriesArtifact(1, 3)
    /\ Len(cache_data.intermediate_codes["cpp"]) = 1
    /\ cache_data.intermediate_codes["cpp"][1].hdl_reference_idx = 1
    /\ cache_data.intermediate_codes["python"] = <<>>


(***************************************************************************)
(* Claims about the paths of a layer and the requests of a trial, checked  *)
(* under Spec.                                                             *)
(***************************************************************************)

\* A chained path of generate_trial is about to run.
ChainedPathNext ==
    /\ ~IsEnhanced(cfg)
    /\ pc = "path"
    /\ path_idx <= Len(cfg.path_config)
    /\ cfg.path_config[path_idx] # "direct"

\* An auxiliary artifact of the language is cached from the layers before.
ArtifactCached(language) ==
    /\ cfg.enable_quality_caching
    /\ layer_idx > 0
    /\ \E i \in 1..Len(cache_data.intermediate_codes[language]) :
           cache_data.intermediate_codes[language][i].layer_idx <= layer_idx - 1

\* The step of a chained path: what it requests, and what it yields.
ChainedPathStep ==
    ChainedPathNext =>
        LET X == cfg.path_config[path_idx]
            ran == trial_hist'.last_path
            yielded == \/ Len(current_layer_outputs') = Len(current_layer_outputs) + 1
                       \/ pc' = "path_refine"
        IN /\ ran.layer = layer_idx /\ ran.path = X
           /\ trial_hist'.requests = trial_hist.requests + ran.aux_requests + ran.hdl_requests
           /\ (ArtifactCached(X) /\ previous_codes # <<>>) =>
                  /\ ran.aux_requests = 0
                  /\ ran.hdl_requests = 1
                  /\ ran.auxiliary = get_best_intermediate_code(cache_data, X, layer_idx - 1).code
           /\ (layer_idx = 0 \/ ~ArtifactCached(X)) =>
                  /\ ran.aux_requests = 1
                  /\ ran.hdl_requests <= 1
                  /\ ran.hdl_requests = 0 =>
                         /\ ~yielded
                         /\ pc' = "path"
                         /\ path_idx' = path_idx + 1
                         /\ current_layer_outputs' = current_layer_outputs
                  /\ ran.hdl_requests = 1 => ran.auxiliary \in AuxiliaryCodes(X)
           /\ pc' = "path_refine" => rf'.intermediate_code = ran.auxiliary
           /\ Len(current_layer_outputs') = Len(current_layer_outputs) + 1 =>
                  current_layer_outputs'[Len(current_layer_outputs')].intermediate
                      = [language |-> X, code |-> ran.auxiliary]

\* C36: at layer i > 0 with caching enabled and a non-empty forward-feed
\* input, a chained path for language X reuses best_auxiliary(X, i-1)
\* whenever it exists: it issues no auxiliary-generation request and only
\* the translation round-trip; at layer 0, or when no auxiliary artifact of
\* X is cached from the layers up to i-1, the auxiliary code is generated
\* first, and a missing response there ends the path without a candidate.
C36_ChainedPathReusesBestAuxiliary == [][ChainedPathStep]_vars

\* C36 witness: in layer 1 the cpp path translated the cached artifact with
\* one request, after layer 0 had generated it with two.
C36_Witness ==
    /\ ~IsEnhanced(cfg)
    /\ layer_idx = 1
    /\ trial_hist.last_path.layer = 1
    /\ trial_hist.last_path.path = "cpp"
    /\ trial_hist.last_path.aux_requests = 0
    /\ trial_hist.last_path.hdl_requests = 1
    /\ trial_hist.last_path.auxiliary = reference["cpp"]
    /\ reference["cpp"] \in AuxiliaryCodes("cpp")
    /\ current_layer_outputs # <<>>
    /\ current_layer_outputs[Len(current_layer_outputs)].intermediate.code = reference["cpp"]


(***************************************************************************)
(* What generate_trial returns.                                            *)
(***************************************************************************)

\* A trial of generate_trial (MoA_HLS.py) has returned.
TrialReturned == pc = "done" /\ ~IsEnhanced(cfg)

\* The output of the last request of the final aggregation.
LastAggregated == trial_hist.agg_codes[Len(trial_hist.agg_codes)]

\* The result is a score-1.0 candidate recorded in the layer that stopped
\* the trial.
ReturnsPerfectOfStoppingLayer ==
    \E e \in Range(cache_data.layer_outputs[layer_idx]) :
        e.quality_score = 100 /\ e.code = result

\* The result is the validated output of the last aggregation request, or
\* what the repair loop called on that output returned.
ReturnsAggregated ==
    /\ trial_hist.agg_codes # <<>>
    /\ LastAggregated \in Codes
    /\ \/ result = LastAggregated
       \/ /\ rpc = "returned"
          /\ Seen # <<>>
          /\ Seen[1].code = LastAggregated
          /\ result = rf_ret.code
          /\ \E i \in 1..Len(Seen) : Seen[i].code = result

\* The result is the code of the top-ranked candidate of the cache.
ReturnsTopOfCache ==
    LET top == get_top_quality_codes(cache_data, 1, NoLayer)
    IN top # <<>> /\ result = top[1].code

\* The result is the code of the top-ranked output of the last layer run.
ReturnsTopOfLastLayer ==
    /\ current_layer_outputs # <<>>
    /\ result = SortedByScore(current_layer_outputs)[1].code

\* No text that failed validation and no auxiliary code is returned.
ReturnsHdlOrNone ==
    /\ result \in Codes \cup {NoValue}
    /\ result \notin {InvalidText, EmptyText, NoResponse}
    /\ \A language \in {"cpp", "python"} : result \notin AuxiliaryCodes(language)

\* C37 as stated: whatever code generate_trial returns is the code of a
\* score-1.0 candidate recorded in the cache in the layer that triggered
\* early stop, or the validated output of a final-aggregation attempt or
\* the repair loop's result for it, or the code of the cache's top-ranked
\* candidate; otherwise it returns none. No unvalidated text and no
\* auxiliary code is returned.
C37_ReturnedCodeIsPerfectAggregatedOrTopOfCache ==
    TrialReturned =>
        /\ ReturnsHdlOrNone
        /\ result # NoValue =>
               \/ outcome = "EarlyStop" /\ ReturnsPerfectOfStoppingLayer
               \/ outcome = "Success" /\ ReturnsAggregated
               \/ outcome = "Fallback" /\ ReturnsTopOfCache

\* C37 amended: as stated, with the fallback of a trial without caching
\* being the code of the top-ranked output of the last layer, which is in
\* no cache.
C37_ReturnedCodeIsPerfectAggregatedOrTopRanked ==
    TrialReturned =>
        /\ ReturnsHdlOrNone
        /\ outcome \in {"EarlyStop", "Success", "Fallback", "Failure"}
        /\ outcome = "EarlyStop" =>
               /\ cfg.enable_quality_caching /\ cfg.enable_early_stopping
               /\ ReturnsPerfectOfStoppingLayer
        /\ outcome = "Success" => ReturnsAggregated
        /\ outcome = "Fallback" =>
               IF cfg.enable_quality_caching
               THEN ReturnsTopOfCache /\ trial_hist.agg_valid = <<FALSE, FALSE>>
               ELSE ReturnsTopOfLastLayer /\ cache_data = EmptyCache
        /\ outcome = "Failure" <=> result = NoValue

\* A trial without caching fell back, after two aggregation requests with
\* no valid module, on the first output of its last layer.
C37_Witness ==
    /\ TrialReturned
    /\ ~cfg.enable_quality_caching
    /\ outcome = "Fallback"
    /\ trial_hist.agg_requests = 2
    /\ Len(current_layer_outputs) = 2
    /\ result = current_layer_outputs[1].code


(***************************************************************************)
(* Termination and the requests of a trial, checked under SpecTerminating. *)
(***************************************************************************)

\* The generation requests the trial has issued: those of the paths, of
\* the aggregation and of the repair loops that returned, and those of the
\* repair loop running or run last.
TrialRequests == trial_hist.requests + rf_hist.requests

\* M: the maximum number of repair iterations, 0 with self-repair off.
RepairBudget ==
    IF cfg.enable_self_refinement THEN cfg.max_self_refinement_iterations ELSE 0

\* L * P * (2 + M) + 2 + M.
RequestBound ==
    cfg.num_layers * Len(cfg.path_config) * (2 + RepairBudget) + 2 + RepairBudget

\* The call of generate_trial has ended: it returned, or an exception left it.
TrialEnded == pc \in {"done", "raised"}

\* C38: every call to generate_trial terminates for every behaviour of the
\* generation service and verifier, after at most L * P * (2 + M) + 2 + M
\* generation requests, with L the number of layers, P the number of paths
\* per layer and M the maximum number of repair iterations (0 when
\* self-repair is disabled).
C38_TrialTerminatesWithinRequestBound ==
    /\ [](~IsEnhanced(cfg) => TrialRequests <= RequestBound)
    /\ (pc = "start" /\ ~IsEnhanced(cfg)) ~> TrialEnded

\* A trial of several layers returned after as many requests as the bound
\* allows.
C38_Witness ==
    /\ TrialReturned
    /\ cfg.num_layers > 1
    /\ TrialRequests = RequestBound


(***************************************************************************)
(* The trial with quality caching disabled, checked under Spec.            *)
(***************************************************************************)

\* A trial of generate_trial whose generator has quality caching off.
UncachedTrial == ~IsEnhanced(cfg) /\ ~cfg.enable_quality_caching

\* The candidates the trial holds: the outputs of the layer run last, the
\* forward-feed input and the input of the aggregation.
CandidatesHeld ==
    Range(current_layer_outputs) \cup Range(previous_codes) \cup Range(final_input)

\* Nothing was scored, repaired, recorded or stopped early.
NothingVerified ==
    /\ ~cfg.enable_self_refinement
    /\ rpc = "idle"
    /\ rf_hist = NoHistory
    /\ pc \notin {"path_refine", "agg_refine", "raised"}
    /\ \A c \in CandidatesHeld :
           /\ c.quality_score = 0
           /\ c.original_quality = 0
           /\ c.first_score = NoScore
    /\ cache_data = EmptyCache
    /\ outcome # "EarlyStop"

\* The step that starts a layer: its forward-feed input is the first
\* n_select outputs of the layer that ran just before, in the order the
\* paths produced them (all scores are tied), and nothing for layer 0.
FeedFromLayerBeforeStep ==
    (UncachedTrial /\ pc = "layer" /\ pc' = "path") =>
        IF layer_idx = 0 THEN previous_codes' = <<>>
        ELSE /\ Len(trial_hist.layer_counts) = layer_idx
             /\ trial_hist.layer_counts[layer_idx] = Len(current_layer_outputs)
             /\ Len(previous_codes') = Min(cfg.n_select, Len(current_layer_outputs))
             /\ \A k \in 1..Len(previous_codes') :
                    previous_codes'[k] = current_layer_outputs[k]

\* C39: with quality caching disabled, self-repair is forced off, every
\* candidate is given quality_score 0.0 and original_quality 0.0 without
\* any verifier call, the early-stop check is never evaluated, so a trial
\* never ends in EarlyStop whatever the early-stop flag, and each layer's
\* forward-feed input consists only of candidates of the immediately
\* preceding layer.
C39_UncachedTrialScoresNothingAndFeedsFromLayerBefore ==
    /\ [](UncachedTrial => NothingVerified)
    /\ [][FeedFromLayerBeforeStep]_vars

\* A trial without caching and with the early-stop flag set ran its last
\* layer on two candidates of the layer before and returned an aggregated
\* code.
C39_Witness ==
    /\ UncachedTrial
    /\ cfg.enable_early_stopping
    /\ pc = "done"
    /\ outcome = "Success"
    /\ layer_idx > 1
    /\ Len(previous_codes) = MaxSelect
    /\ previous_codes[1].code # previous_codes[MaxSelect].code
    /\ Len(current_layer_outputs) = 2

====
